---- MODULE Spec2Model ----
(***************************************************************************)
(* The connection and command engine of pySwitchbot                       *)
(* (switchbot/devices/device.py, SwitchbotBaseDevice) together with the   *)
(* session encryption of the lock (switchbot/devices/lock.py,             *)
(* SwitchbotLock), as a state machine.                                    *)
(*                                                                         *)
(* The engine runs on one asyncio event loop: a coroutine runs without    *)
(* interruption from one suspension point (an await that really waits) to *)
(* the next.  Every action below is one such uninterrupted run; the pc of *)
(* a caller names the await it is suspended in.  The operators take and   *)
(* return the record s of all fields, so that a run that passes through   *)
(* several methods is the composition of their operators.                 *)
(***************************************************************************)
EXTENDS Naturals, Integers, Sequences, FiniteSets, TLC

\* ------------------------------------------------------------------ bounds
MaxRetry == 1        \* the retry budgets tried on a plain device: 0..MaxRetry
MaxConn == 2         \* connections the transport establishes in one run

Callers == {1, 2}    \* concurrent callers of _send_command, one call each
LockRetries == {0, 1}  \* the retry budgets tried on a lock
Timed == 0           \* the task created by _disconnect (the idle timer)
Garbage == -1        \* bytes that are no IV the device handed out
Absent == -1         \* dict.get(key) of a key the field map lacks: None

MaxLen == 2          \* the longest command result tried
MaxIndex == 2        \* the highest index tried
MaxByte == 2         \* the bytes tried: 0..MaxByte
MaxValue == 1        \* the field values tried: 0..MaxValue, 0 being falsy

MaxBody == 5         \* the longest service data tried: a tag and MaxBody bytes
MaxSize == 2         \* the entries the lru_cache of _parse_data holds, scaled
MaxResp == 8         \* the longest response to a cover read tried
MaxTilt == 4         \* the tilts tried: 0..MaxTilt
MaxPayload == 2      \* the longest payload encrypted, in bytes
MaxKeyId == 3        \* the longest key_id tried, in characters

Omitted == -20000    \* a key the dict lacks
Null == -10000       \* the value None of a key the dict has
KeyLength == 32      \* the characters of an encryption_key
KeyIdLength == 2     \* the characters of a key_id
NotHex == 16         \* a character that is no hex digit

\* keys of an advertisement's field map
Fields == {"isOn", "voltage", "current", "sequence_number"}
\* SwitchbotDevice, SwitchbotRelaySwitch, SwitchbotSequenceDevice; "override"
\* is SwitchbotDeviceOverrideStateDuringConnection
Classes == {"device", "relay", "sequence"}

VARIABLES
    encrypted,       \* the device is a SwitchbotLock (TRUE) or a plain device
    retry_count,     \* self._retry_count
    client,          \* self._client: 0 is None, n the n-th connection
    read_char,       \* self._read_char is not None
    write_char,      \* self._write_char is not None
    timer,           \* self._disconnect_timer is not None (armed)
    expected,        \* self._expected_disconnect
    future,          \* self._notify_future: [st, res]
    iv,              \* self._iv: 0 is None, n the IV handed out on connection n
    cipher,          \* self._cipher: 0 is None, n a cipher built from IV n
    opLock,          \* self._operation_lock: holder first, then the waiters
    connLock,        \* self._connect_lock: holder first, then the waiters
    live,            \* transport: the connections that are up
    nConn,           \* transport: connections established so far
    subscribed,      \* transport: connections with the handler registered
    inflight,        \* transport: notifications sent and not yet delivered
    call,            \* per caller: the position and locals of its call
    td,              \* the timed-disconnect task: [pc, cl]
    cls,             \* the class of the device object
    sb_adv_data,     \* self._sb_adv_data: [some, data], some FALSE is None
    override_adv_data,  \* self._override_adv_data: a field map, None is empty
    applied,         \* the last update_from_advertisement: its data and outcome
    chk,             \* the last _check_command_result: [result, index, values, out]
    lastStatus,      \* process_wokeypad's default argument lastStatus[0]
    memo,            \* the lru_cache of _parse_data, least recently used first
    parsed,          \* the last parse_advertisement_data: [in, out, raised, at]
    seen,            \* per input, the first result parse_advertisement_data gave
    cover,           \* a cover device's ext_info_adv, ext_info_sum and direction
    got,             \* the last read of a cover device: its response and result
    session,         \* a lock's key material and IV, and its last encrypted command
    made,            \* the last SwitchbotLock(...): its arguments and outcome
    decoded,         \* the last process_wocurtain: [data, reverse, out, at]
    turned,          \* a relay switch's last turn_on or turn_off since an advertisement
    pushed           \* a lock's notifications: enabled, the future, the last one handled

vars == <<encrypted, retry_count, client, read_char, write_char, timer,
          expected, future, iv, cipher, opLock, connLock, live, nConn,
          subscribed, inflight, call, td, cls, sb_adv_data,
          override_adv_data, applied, chk, lastStatus, memo, parsed, seen,
          cover, got, session, made, decoded, turned, pushed>>

\* The state next to the connection and command engine
facade == <<cls, sb_adv_data, override_adv_data, applied, chk, lastStatus,
            memo, parsed, seen, cover, got, session, made, decoded,
            turned, pushed>>

\* The advertisement codec, the cover facade and the lock's key handling
codec == <<lastStatus, memo, parsed, seen, decoded>>
covers == <<cover, got>>
keying == <<session, made, pushed>>

NoMsg == [conn |-> 0, cmd |-> 0, kind |-> "none", ok |-> FALSE]
NoFrame == [enc |-> FALSE, ivp |-> 0, ct |-> 0]
NoFuture == [st |-> "none", res |-> NoMsg]

\* All fields as one record.
St ==
    [encrypted |-> encrypted, retry_count |-> retry_count, client |-> client,
     read_char |-> read_char, write_char |-> write_char, timer |-> timer,
     expected |-> expected, future |-> future, iv |-> iv, cipher |-> cipher,
     opLock |-> opLock, connLock |-> connLock, live |-> live, nConn |-> nConn,
     subscribed |-> subscribed, inflight |-> inflight, call |-> call,
     td |-> td]

Commit(fields) == \E s \in {fields} :
    /\ encrypted' = s.encrypted
    /\ retry_count' = s.retry_count
    /\ client' = s.client
    /\ read_char' = s.read_char
    /\ write_char' = s.write_char
    /\ timer' = s.timer
    /\ expected' = s.expected
    /\ future' = s.future
    /\ iv' = s.iv
    /\ cipher' = s.cipher
    /\ opLock' = s.opLock
    /\ connLock' = s.connLock
    /\ live' = s.live
    /\ nConn' = s.nConn
    /\ subscribed' = s.subscribed
    /\ inflight' = s.inflight
    /\ call' = s.call
    /\ td' = s.td
    /\ UNCHANGED facade

\* A field map without fields
EmptyMap == [f \in Fields |-> Absent]

NoAdv == [some |-> FALSE, data |-> EmptyMap]
NoApplied ==
    [data |-> EmptyMap, stored |-> FALSE, raised |-> FALSE,
     connected |-> FALSE, before |-> Absent, scheduled |-> 0]
NoResult == [none |-> TRUE, bytes |-> <<>>]

\* Neither turn_on nor turn_off called since the last advertisement
NoTurned ==
    [op |-> "none", err |-> "none", resp |-> NoResult, out |-> "none",
     before |-> Absent]

\* No lock data parsed yet
NoLockData ==
    [some |-> FALSE, calibration |-> FALSE, status |-> 0,
     door_open |-> FALSE, unclosed_alarm |-> FALSE,
     unlocked_alarm |-> FALSE]

\* A lock after its constructor (lock.py 83, device.py 104): notifications
\* are off, no command waits, no notification was handled
NoPushed ==
    [notifications_enabled |-> FALSE, notify_future |-> "none",
     result |-> NoResult, lock_data |-> NoLockData, data |-> NoResult, out |-> "none", enabled |-> FALSE,
     waiting |-> FALSE, before |-> NoLockData]

NoCheck == [result |-> NoResult, index |-> 0, values |-> {}, out |-> "none"]

\* Optional bytes: None is NoResult
Some(b) == [none |-> FALSE, bytes |-> b]

\* The keys of the field maps the modelled decoders produce
Keys ==
    {"switchMode", "isOn", "battery", "calibration", "paired", "inMotion",
     "position", "lightLevel", "deviceChain", "temp", "temperature",
     "fahrenheit", "humidity", "level", "attemptState", "success",
     "sequence_number", "power", "voltage", "current"}

\* The dict {}
NoFields == [k \in Keys |-> Omitted]

\* The arguments of parse_advertisement_data: the service data and the
\* manufacturer data found in the advertisement, and the model hint ("" is
\* None)
NoInput ==
    [service_data |-> NoResult, mfr_data |-> NoResult, mfr_id |-> Absent,
     model |-> ""]

\* None as the result of _parse_data and of parse_advertisement_data
NoData ==
    [none |-> TRUE, rawAdvData |-> NoResult, data |-> NoFields,
     model |-> Absent, isEncrypted |-> FALSE, named |-> FALSE]
NoAdvertisement == [none |-> TRUE, data |-> NoData, active |-> FALSE]
NoParsed ==
    [in |-> NoInput, out |-> NoAdvertisement, raised |-> FALSE,
     at |-> "none"]

\* process_wocurtain not yet called
NoDecoded ==
    [data |-> NoResult, reverse |-> TRUE, raised |-> FALSE,
     out |-> NoFields, at |-> "none"]

\* adv_parser and adv_parsers.keypad after import, no advertisement parsed
Imported ==
    /\ lastStatus = -1
    /\ memo = <<>>
    /\ seen = {}
    /\ decoded = NoDecoded

\* A block of ext_info_adv and of ext_info_sum that is not there
NoAdvBlock ==
    [some |-> FALSE, battery |-> 0, firmware |-> 0, stateOfCharge |-> 0]
NoSumBlock ==
    [some |-> FALSE, openDirectionDefault |-> FALSE, touchToOpen |-> FALSE,
     light |-> FALSE, openDirection |-> "none"]
NoExtInfoAdv == [device0 |-> NoAdvBlock, device1 |-> NoAdvBlock]
NoExtInfoSum == [device0 |-> NoSumBlock, device1 |-> NoSumBlock]

\* A cover device after its constructor (base_cover.py 34-43,
\* curtain.py 36-51)
NoCover ==
    [ext_info_adv |-> NoExtInfoAdv, ext_info_sum |-> NoExtInfoSum,
     is_opening |-> FALSE, is_closing |-> FALSE, tilt |-> Absent]
NoGot ==
    [read |-> "none", given |-> "none", flag |-> FALSE, out |-> "none",
     in_motion |-> FALSE, previous_tilt |-> Absent, new_tilt |-> Absent,
     was_opening |-> FALSE, was_closing |-> FALSE]

\* No cipher made yet (lock.py 80: self._cipher = None)
NoCipher == [none |-> TRUE, key |-> <<>>, iv |-> <<>>]

\* No lock made, and of a lock that was made: no IV, no cipher, nothing
\* sent, encrypted or decrypted yet
NoSession ==
    [key_id |-> <<>>, encryption_key |-> <<>>, iv |-> NoResult,
     cipher |-> NoCipher, op |-> "none", key |-> <<>>,
     response |-> NoResult, asked |-> FALSE, written |-> NoResult,
     out |-> "none", result |-> <<>>, plain |-> <<>>, sealed |-> NoResult,
     data |-> NoResult, opened |-> <<>>, between |-> 0]

\* SwitchbotLock(...) not yet called
NoMade ==
    [key_id |-> <<>>, encryption_key |-> <<>>, model |-> "", out |-> "none"]

\* The parts of the facade the connection and command engine leaves alone
Untouched ==
    /\ Imported
    /\ parsed = NoParsed
    /\ cover = NoCover
    /\ got = NoGot
    /\ session = NoSession
    /\ made = NoMade

IdleCall ==
    [pc |-> "idle", phase |-> "none", attempt |-> 0, retry |-> 0,
     frame |-> NoFrame, cl |-> 0, err |-> "none", stored |-> 0,
     outcome |-> "none", result |-> NoMsg, nconn |-> 0, onlyTimeouts |-> TRUE, fresh |-> FALSE]

\* The device after its constructor (device.py 82-111, lock.py 60-85).
Constructed ==
    /\ client = 0
    /\ read_char = FALSE
    /\ write_char = FALSE
    /\ timer = FALSE
    /\ expected = FALSE
    /\ future = NoFuture
    /\ iv = 0
    /\ cipher = 0
    /\ opLock = <<>>
    /\ connLock = <<>>
    /\ live = {}
    /\ nConn = 0
    /\ subscribed = {}
    /\ inflight = {}
    /\ call = [c \in Callers |-> IdleCall]
    /\ td = [pc |-> "idle", cl |-> 0]
    /\ sb_adv_data = NoAdv
    /\ override_adv_data = EmptyMap
    /\ applied = NoApplied
    /\ turned = NoTurned
    /\ pushed = NoPushed

\* A plain device (SwitchbotDevice) with any retry_count.
Init ==
    /\ cls = "device"
    /\ chk = NoCheck
    /\ Untouched
    /\ encrypted = FALSE
    /\ retry_count \in 0..MaxRetry
    /\ Constructed

\* A SwitchbotLock.
InitLock ==
    /\ cls = "device"
    /\ chk = NoCheck
    /\ Untouched
    /\ encrypted = TRUE
    /\ retry_count \in LockRetries
    /\ Constructed

\* ------------------------------------------------------------- helpers
Services == {[r |-> TRUE, w |-> TRUE], [r |-> FALSE, w |-> TRUE],
             [r |-> TRUE, w |-> FALSE]}

\* client.is_connected of self._client (device.py 208, 213, 300)
IsConnected(s) == s.client # 0 /\ s.client \in s.live

\* _cancel_disconnect_timer (device.py 266-270)
CancelDisconnectTimer(s) == [s EXCEPT !.timer = FALSE]

\* _reset_disconnect_timer (device.py 240-246)
ResetDisconnectTimer(s) ==
    [CancelDisconnectTimer(s) EXCEPT !.timer = TRUE, !.expected = FALSE]

\* leaving "async with self._connect_lock": the next waiter becomes holder
ReleaseConnectLock(s) == [s EXCEPT !.connLock = Tail(@)]

\* leaving "async with self._operation_lock"
ReleaseOperationLock(s) == [s EXCEPT !.opLock = Tail(@)]

\* The call of caller c ends: its locals are dropped.
EndCall(s, c, outcome, msg) ==
    [s EXCEPT !.call[c] = [IdleCall EXCEPT !.pc = "done",
                                           !.outcome = outcome,
                                           !.result = msg]]

\* An exception that leaves _send_command with the operation lock held
RaiseHoldingLock(s, c, err) == EndCall(s, c, err, NoMsg)

\* An exception leaves _send_command (device.py 153, 163, 180): the
\* operation lock is released and the error reaches the caller.
Raise(s, c, err) == EndCall(ReleaseOperationLock(s), c, err, NoMsg)

\* _execute_command_locked that writes without looking at the
\* characteristics
ExecuteCommandLockedUnchecked(s, c) ==
    [s EXCEPT !.future = [st |-> "pending", res |-> NoMsg],
              !.call[c].cl = s.client,
              !.call[c].pc = "writing"]

\* _execute_command_locked up to its first await (device.py 342-353), for
\* a caller whose _ensure_connected has returned.  "charmissing" marks the
\* CharacteristicMissingError it raises.
ExecuteCommandLocked(s, c) ==
    IF ~s.read_char \/ ~s.write_char
    THEN [s EXCEPT !.call[c].pc = "charmissing"]
    ELSE [s EXCEPT !.future = [st |-> "pending", res |-> NoMsg],
                   !.call[c].cl = s.client,
                   !.call[c].pc = "writing"]

\* _ensure_connected holding the connect lock (device.py 213-217)
EnsureConnectedLocked(s, c) ==
    IF IsConnected(s)
    THEN [ReleaseConnectLock(ResetDisconnectTimer(s))
            EXCEPT !.call[c].pc = "connected"]
    ELSE [s EXCEPT !.call[c].pc = "connecting",
                   !.call[c].nconn = @ + 1]

\* _ensure_connected up to its first await (device.py 200-217)
EnsureConnected(s, c) ==
    IF IsConnected(s)
    THEN [ResetDisconnectTimer(s) EXCEPT !.call[c].pc = "connected"]
    ELSE IF s.connLock = <<>>
         THEN EnsureConnectedLocked([s EXCEPT !.connLock = <<c>>], c)
         ELSE [s EXCEPT !.connLock = Append(@, c),
                        !.call[c].pc = "wait_conn"]

RECURSIVE RetryLoop(_, _)

\* The except clauses of the retry loop (device.py 154-184) for an error
\* that is not BleakNotFoundError: raise on the last attempt, else go on
\* with the next attempt.
RetryOrRaise(s, c, err) ==
    LET s1 == [s EXCEPT !.call[c].onlyTimeouts = @ /\ (err = "timeout")]
    IN  IF s1.call[c].attempt = s1.call[c].retry
        THEN Raise(s1, c, err)
        ELSE RetryLoop([s1 EXCEPT !.call[c].attempt = @ + 1], c)

\* The rest of an attempt once _ensure_connected has returned
\* (device.py 308-309, then the loop's except clauses).
AfterEnsureConnected(s, c) ==
    LET s1 == ExecuteCommandLocked(s, c)
    IN  IF s1.call[c].pc = "charmissing"
        THEN RetryOrRaise(s1, c, "charmissing")
        ELSE s1

\* One iteration of the loop: _send_command_locked (device.py 143-145,
\* 305-309) up to the first await.
RetryLoop(s, c) ==
    LET s1 == EnsureConnected(s, c)
    IN  IF s1.call[c].pc = "connected"
        THEN AfterEnsureConnected(s1, c)
        ELSE s1

\* BleakNotFoundError handled like the other transport errors
NotFoundRetried(s, c) ==
    RetryOrRaise([ReleaseConnectLock(s) EXCEPT !.call[c].err = "notfound"],
                 c, "notfound")

\* except BleakNotFoundError (device.py 146-153): the error leaves
\* _ensure_connected and the loop, whatever attempt it is.
NotFound(s, c) ==
    Raise([ReleaseConnectLock(s) EXCEPT !.call[c].err = "notfound"],
          c, "notfound")

\* _send_command entering its loop without waiting for the operation lock
SendCommandUnlocked(s, c) ==
    RetryLoop([s EXCEPT !.call[c].retry = s.retry_count,
                        !.call[c].attempt = 0,
                        !.call[c].nconn = 0,
                        !.call[c].onlyTimeouts = TRUE,
                        !.call[c].fresh = ~IsConnected(s),
                        !.opLock = Append(@, c)], c)

\* SwitchbotBaseDevice._send_command up to its first await
\* (device.py 129-145): retry None is self._retry_count.
SendCommand(s, c) ==
    LET s1 == [s EXCEPT !.call[c].retry = s.retry_count,
                        !.call[c].attempt = 0,
                        !.call[c].nconn = 0,
                        !.call[c].onlyTimeouts = TRUE,
                        !.call[c].fresh = ~IsConnected(s)]
    IN  IF s1.opLock = <<>>
        THEN RetryLoop([s1 EXCEPT !.opLock = <<c>>], c)
        ELSE [s1 EXCEPT !.opLock = Append(@, c),
                        !.call[c].pc = "wait_op"]

\* SwitchbotLock._get_cipher (lock.py 387-392), with an IV stored
GetCipher(s) == [s EXCEPT !.cipher = IF @ = 0 THEN s.iv ELSE @]

\* SwitchbotLock._send_command from the frame on (lock.py 362-365)
SendEncrypted(s, c) ==
    LET s1 == GetCipher(s)
    IN  SendCommand([s1 EXCEPT !.call[c].phase = "main",
                               !.call[c].frame =
                                   [enc |-> TRUE, ivp |-> s1.iv,
                                    ct |-> s1.cipher]], c)

\* SwitchbotLock._send_command / _ensure_encryption_initialized up to the
\* first await (lock.py 351-374); a plain device calls the base method.
CallSendCommand(s, c) ==
    IF ~s.encrypted
    THEN SendCommand([s EXCEPT !.call[c].phase = "main"], c)
    ELSE IF s.iv # 0
         THEN SendEncrypted(s, c)
         ELSE SendCommand([s EXCEPT !.call[c].phase = "iv"], c)

\* result[4:] of a response: the IV when it answers a get-IV command
IvOf(m) == IF m.kind = "iv" THEN m.conn ELSE Garbage

\* The lock going on to the encrypted frame whatever the get-IV answer says
AfterSendCommandUnchecked(s, c, m) ==
    IF ~s.encrypted
    THEN EndCall(s, c, "ok", m)
    ELSE IF s.call[c].phase = "iv"
         THEN SendEncrypted([s EXCEPT !.iv = IvOf(m)], c)
         ELSE IF s.cipher = 0 /\ s.iv = 0
              THEN EndCall(s, c, "typeerror", NoMsg)
              ELSE EndCall(GetCipher(s), c, "ok", m)

\* What follows the return of the base _send_command: for the lock the
\* rest of _ensure_encryption_initialized and _send_command (lock.py
\* 375-379, 358-366).
AfterSendCommand(s, c, m) ==
    IF ~s.encrypted
    THEN EndCall(s, c, "ok", m)
    ELSE IF s.call[c].phase = "iv"
         THEN IF m.ok
              THEN SendEncrypted([s EXCEPT !.iv = IvOf(m)], c)
              ELSE EndCall(s, c, "none", NoMsg)
         ELSE IF s.cipher = 0 /\ s.iv = 0
              THEN EndCall(s, c, "typeerror", NoMsg)
              ELSE EndCall(GetCipher(s), c, "ok", m)

\* _execute_command_locked from the notification on, and the return through
\* _send_command_locked and _send_command (device.py 356-364, 309, 145).
FinishCommand(s, c) ==
    AfterSendCommand(
        ReleaseOperationLock([s EXCEPT !.future = NoFuture,
                                       !.call[c].cl = 0,
                                       !.call[c].stored = 0]), c,
        s.future.res)

\* _notification_handler (device.py 330-335)
NotificationHandler(s, m) ==
    IF s.future.st = "pending"
    THEN [s EXCEPT !.future = [st |-> "done", res |-> m]]
    ELSE s

\* The task p (a caller, or the timed task) suspends in client.disconnect()
Suspend(s, p, where, cl) ==
    IF p = Timed
    THEN [s EXCEPT !.td = [pc |-> where, cl |-> cl]]
    ELSE [s EXCEPT !.call[p].pc = where, !.call[p].cl = cl]

\* What follows SwitchbotBaseDevice._execute_disconnect: the lock's
\* override drops IV and cipher (lock.py 381-385); the timed task ends
\* (device.py 281-288), a caller re-raises (device.py 320-321, 327-328).
AfterExecuteDisconnect(s, p) ==
    LET s1 == IF s.encrypted THEN [s EXCEPT !.iv = 0, !.cipher = 0] ELSE s
    IN  IF p = Timed
        THEN [s1 EXCEPT !.td = [pc |-> "idle", cl |-> 0]]
        ELSE RetryOrRaise(s1, p, s1.call[p].err)

\* _execute_disconnect that disconnects although the timer was reset
ExecuteDisconnectLockedAlways(s, p) ==
    LET cl == s.client
        s1 == [s EXCEPT !.expected = TRUE, !.client = 0,
                        !.read_char = FALSE, !.write_char = FALSE]
    IN  IF cl # 0 /\ cl \in s.live
        THEN Suspend(s1, p, "disconnecting", cl)
        ELSE AfterExecuteDisconnect(ReleaseConnectLock(s1), p)

\* _execute_disconnect holding the connect lock (device.py 293-302)
ExecuteDisconnectLocked(s, p) ==
    IF s.timer
    THEN AfterExecuteDisconnect(ReleaseConnectLock(s), p)
    ELSE LET cl == s.client
             s1 == [s EXCEPT !.expected = TRUE, !.client = 0,
                             !.read_char = FALSE, !.write_char = FALSE]
         IN  IF cl # 0 /\ cl \in s.live
             THEN Suspend(s1, p, "disconnecting", cl)
             ELSE AfterExecuteDisconnect(ReleaseConnectLock(s1), p)

\* _execute_disconnect up to its first await (device.py 290-292)
ExecuteDisconnect(s, p) ==
    IF s.connLock = <<>>
    THEN ExecuteDisconnectLocked([s EXCEPT !.connLock = <<p>>], p)
    ELSE Suspend([s EXCEPT !.connLock = Append(@, p)], p, "wait_disc", 0)

\* _execute_forced_disconnect (device.py 272-279)
ExecuteForcedDisconnect(s, c) ==
    ExecuteDisconnect(CancelDisconnectTimer(s), c)

\* The transport drops connection n: nothing more arrives from it.
Drop(s, n) ==
    [s EXCEPT !.live = @ \ {n}, !.subscribed = @ \ {n},
              !.inflight = {m \in @ : m.conn # n}]

\* self._client, self._read_char, self._write_char after
\* _resolve_characteristics and the rest of _ensure_connected up to
\* start_notify (device.py 230-232, 337-340)
AfterResolve(s, c, n) ==
    [ResetDisconnectTimer([s EXCEPT !.client = n])
        EXCEPT !.call[c].pc = "subscribing", !.call[c].cl = n]

\* _resolve_characteristics (device.py 234-238)
ResolveCharacteristics(s, sv) ==
    [s EXCEPT !.read_char = sv.r, !.write_char = sv.w]

\* The queue q of a lock without the task p
Without(q, p) == SelectSeq(q, LAMBDA x : x # p)

\* A cancelled call that leaves its locks as they are
CancelledHoldingLocks(s, c) == EndCall(s, c, "cancelled", NoMsg)

\* CancelledError raised at the await caller c is suspended in: it passes
\* the except clauses (device.py 146-184, 310-328) and leaves the
\* "async with" blocks of the locks the call holds or waits for (device.py
\* 142, 211, 292); a future the call was waiting on is cancelled with it
\* (device.py 355-356).
Cancelled(s, c) ==
    EndCall([s EXCEPT !.opLock = Without(@, c),
                      !.connLock = Without(@, c),
                      !.future = IF s.call[c].pc = "waiting"
                                    /\ @.st = "pending"
                                 THEN [st |-> "cancelled", res |-> NoMsg]
                                 ELSE @],
            c, "cancelled", NoMsg)

\* ------------------------------------------------------------- actions
\* A caller calls _send_command (a device facade's command).
Call(c) ==
    /\ call[c].pc = "idle"
    /\ \A d \in Callers : d < c => call[d].pc # "idle"
    /\ Commit(CallSendCommand(St, c))

\* The operation lock is handed to the waiting caller c (device.py 142).
OperationLockGranted(c) ==
    /\ call[c].pc = "wait_op"
    /\ Head(opLock) = c
    /\ Commit(RetryLoop(St, c))

\* The connect lock is handed to caller c waiting in _ensure_connected
\* (device.py 211-217).
ConnectLockGranted(c) ==
    /\ call[c].pc = "wait_conn"
    /\ Head(connLock) = c
    /\ LET s1 == EnsureConnectedLocked(St, c)
       IN  Commit(IF s1.call[c].pc = "connected"
                  THEN AfterEnsureConnected(s1, c)
                  ELSE s1)

\* establish_connection returns a client whose cached services are sv
\* (device.py 217-232).
ConnectOk(c) ==
    /\ call[c].pc = "connecting"
    /\ nConn < MaxConn
    /\ \E sv \in Services :
          LET n == nConn + 1
              s1 == ResolveCharacteristics(
                        [St EXCEPT !.live = @ \cup {n}, !.nConn = n], sv)
          IN  Commit(IF sv.r /\ sv.w
                     THEN AfterResolve(s1, c, n)
                     ELSE [s1 EXCEPT !.call[c].pc = "get_services",
                                     !.call[c].cl = n])

\* establish_connection raises BleakNotFoundError (device.py 146-153).
ConnectNotFound(c) ==
    /\ call[c].pc = "connecting"
    /\ Commit(NotFound(St, c))

\* establish_connection raises another error of BLEAK_RETRY_EXCEPTIONS.
ConnectError(c) ==
    /\ call[c].pc = "connecting"
    /\ Commit(RetryOrRaise(ReleaseConnectLock(St), c, "bleak"))

\* client.get_services() returns the services sv (device.py 229-232).
GetServicesOk(c) ==
    /\ call[c].pc = "get_services"
    /\ call[c].cl \in live
    /\ \E sv \in Services :
          Commit(AfterResolve(ResolveCharacteristics(St, sv), c, call[c].cl))

\* client.get_services() raises: self._client was never assigned.
GetServicesError(c) ==
    /\ call[c].pc = "get_services"
    /\ Commit(RetryOrRaise(
           [ReleaseConnectLock(St) EXCEPT !.call[c].cl = 0], c, "bleak"))

\* start_notify returns (device.py 232, 337-340), _ensure_connected
\* returns and the command is executed up to its write.
StartNotifyOk(c) ==
    /\ call[c].pc = "subscribing"
    /\ call[c].cl \in live
    /\ Commit(AfterEnsureConnected(
           ReleaseConnectLock([St EXCEPT !.subscribed = @ \cup {call[c].cl}]),
           c))

\* start_notify raises.
StartNotifyError(c) ==
    /\ call[c].pc = "subscribing"
    /\ Commit(RetryOrRaise(
           [ReleaseConnectLock(St) EXCEPT !.call[c].cl = 0], c, "bleak"))

\* write_gatt_char returns (device.py 353-356): the device has the frame
\* and answers it with a notification; the answer to a get-IV command
\* reports success or not.  A notification is told apart by the connection
\* it comes over and the command and frame it answers; the answers to two
\* writes of one frame on one connection are the same bytes.
WriteOk(c) ==
    /\ call[c].pc = "writing"
    /\ call[c].cl \in live
    /\ \E ok \in (IF call[c].phase = "iv" THEN BOOLEAN ELSE {TRUE}) :
          LET m == [conn |-> call[c].cl, cmd |-> c,
                    kind |-> call[c].phase, ok |-> ok]
              s1 == [St EXCEPT !.inflight = @ \cup {m},
                               !.call[c].stored = iv]
          IN  Commit(IF s1.future.st = "done"
                     THEN FinishCommand(s1, c)
                     ELSE [s1 EXCEPT !.call[c].pc = "waiting"])

\* write_gatt_char raises BleakError (device.py 322-328).
WriteBleakError(c) ==
    /\ call[c].pc = "writing"
    /\ Commit(ExecuteForcedDisconnect(
           [St EXCEPT !.call[c].err = "bleak", !.call[c].cl = 0], c))

\* write_gatt_char raises BleakDBusError: back off first (device.py 310-312).
WriteDBusError(c) ==
    /\ call[c].pc = "writing"
    /\ Commit([St EXCEPT !.call[c].pc = "backoff", !.call[c].err = "bleak",
                         !.call[c].cl = 0])

\* asyncio.sleep(0.25) is over (device.py 312-321).
BackoffDone(c) ==
    /\ call[c].pc = "backoff"
    /\ Commit(ExecuteForcedDisconnect(St, c))

\* The transport delivers a notification to the handler.
Notify(m) ==
    /\ m \in inflight
    /\ m.conn \in live \cap subscribed
    /\ Commit(NotificationHandler([St EXCEPT !.inflight = @ \ {m}], m))

\* The caller waiting for its notification resumes (device.py 356-364).
NotificationReceived(c) ==
    /\ call[c].pc = "waiting"
    /\ future.st = "done"
    /\ Commit(FinishCommand(St, c))

\* async_timeout.timeout(5) expires (device.py 355-356): the wait and the
\* future are cancelled and asyncio.TimeoutError reaches the retry loop.
NotificationTimeout(c) ==
    /\ call[c].pc = "waiting"
    /\ future.st = "pending"
    /\ Commit(RetryOrRaise(
           [St EXCEPT !.future = [st |-> "cancelled", res |-> NoMsg],
                      !.call[c].cl = 0, !.call[c].stored = 0],
           c, "timeout"))

\* The connect lock is handed to p waiting in _execute_disconnect.
DisconnectLockGranted(p) ==
    /\ IF p = Timed THEN td.pc = "wait_disc" ELSE call[p].pc = "wait_disc"
    /\ Head(connLock) = p
    /\ Commit(ExecuteDisconnectLocked(St, p))

\* client.disconnect() returns (device.py 302-303): the connection is down.
DisconnectDone(p) ==
    /\ IF p = Timed THEN td.pc = "disconnecting"
                    ELSE call[p].pc = "disconnecting"
    /\ LET cl == IF p = Timed THEN td.cl ELSE call[p].cl
           s1 == IF p = Timed THEN St ELSE [St EXCEPT !.call[p].cl = 0]
       IN  Commit(AfterExecuteDisconnect(
                      ReleaseConnectLock(Drop(s1, cl)), p))

\* The idle timer expires: _disconnect (device.py 261-264) creates the
\* timed-disconnect task.  The task runs in the loop's next iteration, so
\* a second expiry never finds the first task not yet started.
TimerExpires ==
    /\ timer
    /\ td.pc = "idle"
    /\ Commit([CancelDisconnectTimer(St)
                  EXCEPT !.td = [pc |-> "scheduled", cl |-> 0]])

\* The timed-disconnect task starts (device.py 281-292).
TimedDisconnectStarts ==
    /\ td.pc = "scheduled"
    /\ Commit(ExecuteDisconnect(St, Timed))

\* The transport loses connection n: _disconnected (device.py 248-259)
\* only logs.
UnexpectedDisconnect(n) ==
    /\ n \in live
    /\ Commit(Drop(St, n))

Next ==
    \/ \E c \in Callers : Call(c)
    \/ \E c \in Callers : OperationLockGranted(c)
    \/ \E c \in Callers : ConnectLockGranted(c)
    \/ \E c \in Callers : ConnectOk(c)
    \/ \E c \in Callers : ConnectNotFound(c)
    \/ \E c \in Callers : ConnectError(c)
    \/ \E c \in Callers : GetServicesOk(c)
    \/ \E c \in Callers : GetServicesError(c)
    \/ \E c \in Callers : StartNotifyOk(c)
    \/ \E c \in Callers : StartNotifyError(c)
    \/ \E c \in Callers : WriteOk(c)
    \/ \E c \in Callers : WriteBleakError(c)
    \/ \E c \in Callers : WriteDBusError(c)
    \/ \E c \in Callers : BackoffDone(c)
    \/ \E m \in inflight : Notify(m)
    \/ \E c \in Callers : NotificationReceived(c)
    \/ \E c \in Callers : NotificationTimeout(c)
    \/ \E p \in Callers \cup {Timed} : DisconnectLockGranted(p)
    \/ \E p \in Callers \cup {Timed} : DisconnectDone(p)
    \/ TimerExpires
    \/ TimedDisconnectStarts
    \/ \E n \in live : UnexpectedDisconnect(n)

Spec == Init /\ [][Next]_vars

\* The caller's task is cancelled while its call is suspended in an await.
Cancel(c) ==
    /\ call[c].pc \notin {"idle", "done"}
    /\ Commit(Cancelled(St, c))

NextCancel ==
    \/ Next
    \/ \E c \in Callers : Cancel(c)

\* A plain device whose callers may be cancelled.
SpecCancel == Init /\ [][NextCancel]_vars

SpecLock == InitLock /\ [][Next]_vars

\* ------------------------------------------------------ advertisements
\* The fields of the connection and command engine
engine == <<encrypted, retry_count, client, read_char, write_char, timer,
            expected, future, iv, cipher, opLock, connLock, live, nConn,
            subscribed, inflight, call, td>>

\* The field maps an advertisement may carry (advertisement.data["data"])
Adverts == [Fields -> {Absent} \cup (0..MaxValue)]

\* Python's truth of a field value: None and 0 are false
Truthy(v) == v > 0

\* _get_adv_value that does not look at the override
GetAdvValueCached(sb, ov, key) ==
    IF ~sb.some THEN Absent ELSE sb.data[key]

\* _get_adv_value (device.py 370-382) with cache sb and override ov
GetAdvValue(sb, ov, key) ==
    IF ov[key] # Absent
    THEN ov[key]
    ELSE IF ~sb.some THEN Absent ELSE sb.data[key]

\* _set_advertisement_data (device.py 457-461) for an advertisement with
\* field map data: the new cache and override, whether the advertisement
\* was stored, and whether the method raised (self._sb_adv_data is None
\* has no attribute data).
SetAdvertisementData(sb, ov, data) ==
    IF data # EmptyMap
    THEN [sb |-> [some |-> TRUE, data |-> data], ov |-> EmptyMap,
          stored |-> TRUE, raised |-> FALSE]
    ELSE IF ~sb.some
         THEN [sb |-> sb, ov |-> ov, stored |-> FALSE, raised |-> TRUE]
         ELSE IF sb.data = EmptyMap
              THEN [sb |-> [some |-> TRUE, data |-> data], ov |-> EmptyMap,
                    stored |-> TRUE, raised |-> FALSE]
              ELSE [sb |-> sb, ov |-> EmptyMap,
                    stored |-> FALSE, raised |-> FALSE]

\* SwitchbotRelaySwitch.update_from_advertisement before it calls super
\* (relay_switch.py 55-59): the advertisement's own field map is written to.
RelayCarryOver(sb, ov, data) ==
    LET v == GetAdvValue(sb, ov, "voltage")
        i == GetAdvValue(sb, ov, "current")
    IN  [data EXCEPT !["voltage"] = IF Truthy(v) THEN v ELSE @,
                     !["current"] = IF Truthy(i) THEN i ELSE @]

\* The advertisement is not stored, and the override is cleared
IgnoredAndCleared(sb, ov) ==
    [sb |-> sb, ov |-> EmptyMap, stored |-> FALSE, raised |-> FALSE]

\* The advertisement is left alone (device.py 492-497)
Ignored(sb, ov) ==
    [sb |-> sb, ov |-> ov, stored |-> FALSE, raised |-> FALSE]

\* An update() for every advertisement that did not raise
ScheduledUpdatesEach(current_state, r) == IF r.raised THEN 0 ELSE 1

\* The update() calls that SwitchbotSequenceDevice.update_from_advertisement
\* hands to asyncio.ensure_future (device.py 510-521, base_light.py 90-101)
\* when the sequence number was current_state and super() came to r
ScheduledUpdates(current_state, r) ==
    IF r.raised
    THEN 0
    ELSE IF current_state # GetAdvValue(r.sb, r.ov, "sequence_number")
    THEN 1
    ELSE 0

\* update_from_advertisement (device.py 477-480, 490-498, 508-521,
\* relay_switch.py 52-61) of an advertisement decoded to the field map data.
UpdateFromAdvertisement(data) ==
    LET d1 == IF cls = "relay"
              THEN RelayCarryOver(sb_adv_data, override_adv_data, data)
              ELSE data
        connected == IsConnected(St)
        current_state ==
            GetAdvValue(sb_adv_data, override_adv_data, "sequence_number")
        r == IF cls = "override" /\ connected
             THEN Ignored(sb_adv_data, override_adv_data)
             ELSE SetAdvertisementData(sb_adv_data, override_adv_data, d1)
    IN  /\ sb_adv_data' = r.sb
        /\ override_adv_data' = r.ov
        /\ applied' = [data |-> data, stored |-> r.stored,
                       raised |-> r.raised, connected |-> connected,
                       before |-> current_state,
                       scheduled |-> IF cls = "sequence"
                                     THEN ScheduledUpdates(current_state, r)
                                     ELSE 0]
        /\ turned' = NoTurned
        /\ UNCHANGED <<engine, cls, chk, codec, covers, keying>>

\* A device object of either class, fed advertisements.
InitAdv ==
    /\ cls \in Classes
    /\ chk = NoCheck
    /\ Untouched
    /\ encrypted = (cls = "relay")
    /\ retry_count = 0
    /\ Constructed

NextAdv == \E data \in Adverts : UpdateFromAdvertisement(data)

SpecAdv == InitAdv /\ [][NextAdv]_vars

\* The field maps an override-during-connection device is fed: no field,
\* and isOn false and true
OverrideAdverts ==
    {EmptyMap} \cup {[EmptyMap EXCEPT !["isOn"] = v] : v \in {0, 1}}

\* The device records the state it commanded, as ceiling_light.py 37 and 45
\* do: self._override_adv_data = {"isOn": v}
Overrides(v) ==
    /\ override_adv_data' = [EmptyMap EXCEPT !["isOn"] = v]
    /\ applied' = NoApplied
    /\ UNCHANGED <<engine, cls, sb_adv_data, chk, turned, codec, covers,
                   keying>>

\* A device that overrides its state during a connection, with the default
\* retry budget of none.
InitOverride ==
    /\ cls = "override"
    /\ chk = NoCheck
    /\ Untouched
    /\ encrypted = FALSE
    /\ retry_count = 0
    /\ Constructed

\* Commands, the transport and the idle timer next to advertisements
NextOverride ==
    \/ Next
    \/ \E data \in OverrideAdverts : UpdateFromAdvertisement(data)
    \/ Overrides(1)

SpecOverride == InitOverride /\ [][NextOverride]_vars

\* ------------------------------------------------------ command results
\* The byte strings of up to n bytes
BytesUpTo(n) == UNION {[1..k -> 0..MaxByte] : k \in 0..n}

\* The results a command may hand to _check_command_result: None or bytes
Results ==
    {NoResult} \cup {[none |-> FALSE, bytes |-> b] : b \in BytesUpTo(MaxLen)}

\* _check_command_result with an off-by-one length test
CheckCommandResultOffByOne(result, index, values) ==
    IF result.none \/ result.bytes = <<>> \/ Len(result.bytes) - 1 <= index
    THEN "raise"
    ELSE IF result.bytes[index + 1] \in values THEN "true" ELSE "false"

\* _check_command_result (device.py 446-455): "raise" is
\* SwitchbotOperationError; bytes are indexed from 0 in the code.
CheckCommandResult(result, index, values) ==
    IF result.none \/ result.bytes = <<>> \/ Len(result.bytes) - 1 < index
    THEN "raise"
    ELSE IF result.bytes[index + 1] \in values THEN "true" ELSE "false"

\* A facade calls _check_command_result on the result of a command.
CallCheckCommandResult ==
    /\ chk.out = "none"
    /\ chk' = [chk EXCEPT !.out = CheckCommandResult(chk.result, chk.index,
                                                      chk.values)]
    /\ UNCHANGED <<engine, cls, sb_adv_data, override_adv_data, applied,
                   turned, codec, covers, keying>>

\* Any result, index and set of accepted values.
InitCheck ==
    /\ cls = "device"
    /\ encrypted = FALSE
    /\ retry_count = 0
    /\ Constructed
    /\ Untouched
    /\ chk \in [result : Results, index : 0..MaxIndex,
                 values : SUBSET (0..MaxByte), out : {"none"}]

NextCheck == CallCheckCommandResult

SpecCheck == InitCheck /\ [][NextCheck]_vars

\* ------------------------------------------------------- relay switch
\* How _send_command ends for turn_on and turn_off: it raises, or it
\* returns None, b"", or bytes that start with the status byte 1 or another
TurnResults ==
    {[err |-> e, resp |-> NoResult] : e \in {"timeout", "bleak", "notfound"}}
    \cup {[err |-> "none", resp |-> r] :
             r \in {NoResult, Some(<<>>), Some(<<1>>), Some(<<1, 0>>),
                    Some(<<0>>), Some(<<2, 1>>)}}

\* _override_state({key: value}), as turn_on and turn_off call it
\* (relay_switch.py 120, 129) and test_turn_on and test_turn_off read it
\* back: the override ov gets the key
OverrideState(ov, key, value) == [ov EXCEPT ![key] = value]

\* is_on (relay_switch.py 139-141)
IsOn == GetAdvValue(sb_adv_data, override_adv_data, "isOn")

\* turn_on (value 1) and turn_off (value 0) (relay_switch.py 115-131) when
\* _send_command ends as r
Turn(op, value, r) ==
    LET ok == IF r.err # "none" THEN "raised"
              ELSE CheckCommandResult(r.resp, 0, {1})
    IN  /\ cls = "relay"
        /\ override_adv_data' =
               IF ok = "true"
               THEN OverrideState(override_adv_data, "isOn", value)
               ELSE override_adv_data
        /\ turned' = [op |-> op, err |-> r.err, resp |-> r.resp,
                      out |-> IF ok = "raise" THEN "raised" ELSE ok,
                      before |-> IsOn]
        /\ UNCHANGED <<engine, cls, sb_adv_data, applied, chk, codec,
                       covers, keying>>

TurnOn(r) == Turn("turn_on", 1, r)

TurnOff(r) == Turn("turn_off", 0, r)

\* A relay switch, turned on and off and fed advertisements.
InitRelay ==
    /\ cls = "relay"
    /\ chk = NoCheck
    /\ Untouched
    /\ encrypted = TRUE
    /\ retry_count = 0
    /\ Constructed

\* The field maps of the advertisements a relay switch is fed: those of the
\* fields it carries over and turns
RelayAdverts == {data \in Adverts : data["sequence_number"] = Absent}

\* Of these, the ones turn_on and turn_off are tried with
TurnAdverts == {data \in RelayAdverts : data["current"] = Absent}

NextRelay ==
    \/ \E data \in TurnAdverts : UpdateFromAdvertisement(data)
    \/ \E r \in TurnResults : TurnOn(r)
    \/ \E r \in TurnResults : TurnOff(r)

SpecRelay == InitRelay /\ [][NextRelay]_vars

\* ------------------------------------------------ advertisement decoding
\* The bytes tried in service data and manufacturer data: no bit set, a
\* low bit set, the high bit set
ByteVals == {0, 1, 128}

\* The first bytes of the service data tried: the tags "<", "H", "T", "c",
\* "e", "y", the unregistered tags chr(0) and "z", and "H" and "T" with the
\* high bit set
TagBytes == {0, 60, 72, 84, 99, 101, 121, 122, 200, 212}

\* The lengths of manufacturer data tried
MfrLengths == {0, 6, 7, 12}

\* The model hints tried: None, registered models and one that is not
Hints ==
    {"", "WoHand", "WoCurtain", "WoSensorTH", "WoHumi", "WoKeypad",
     "Unknown"}

\* b[i] of Python: bytes are indexed from 0
At(b, i) == b[i + 1]

\* b[lo:hi] of Python
Slice(b, lo, hi) == SubSeq(b, lo + 1, IF hi < Len(b) THEN hi ELSE Len(b))

\* bool(x & (1 << n))
Bit(x, n) == (x \div (2 ^ n)) % 2 = 1

\* A truth value as a field value
Bool(b) == IF b THEN 1 ELSE 0

\* n bytes b
Fill(n, b) == [i \in 1..n |-> b]

\* Python's truth of optional bytes: neither None nor empty
Given(o) == ~o.none /\ o.bytes # <<>>

\* A dict with the keys and values of the record f
Dict(f) == [k \in Keys |-> IF k \in DOMAIN f THEN f[k] ELSE Omitted]

\* A decoder returns a dict, or raises TypeError or IndexError
Returned(d) == [raised |-> FALSE, data |-> d]
Raises == [raised |-> TRUE, data |-> NoFields]

\* process_wohand (adv_parsers/bot.py 5-13)
ProcessWohand(data, mfr_data) ==
    IF data.none \/ Len(data.bytes) < 3
    THEN Raises
    ELSE LET switch_mode == Bit(At(data.bytes, 1), 7)
         IN  Returned(Dict(
                 [switchMode |-> Bool(switch_mode),
                  isOn |-> IF switch_mode
                           THEN Bool(~Bit(At(data.bytes, 1), 6))
                           ELSE 0,
                  battery |-> At(data.bytes, 2) % 128]))

\* process_wocurtain without the clamp of the position
ProcessWocurtainUnclamped(data, mfr_data, reverse) ==
    IF data.none \/ Len(data.bytes) < 5
    THEN Raises
    ELSE LET d == data.bytes
             position == At(d, 3) % 128
         IN  Returned(Dict(
                 [calibration |-> Bool(Bit(At(d, 1), 6)),
                  paired |-> Bool(~Bit(At(d, 1), 4)),
                  battery |-> At(d, 2) % 128,
                  inMotion |-> Bool(Bit(At(d, 3), 7)),
                  position |-> IF reverse THEN 100 - position ELSE position,
                  lightLevel |-> (At(d, 4) \div 16) % 16,
                  deviceChain |-> At(d, 4) % 8]))

\* process_wocurtain (adv_parsers/curtain.py 5-20): data[i] of None raises
\* TypeError and of shorter service data IndexError
ProcessWocurtainReverse(data, mfr_data, reverse) ==
    IF data.none \/ Len(data.bytes) < 5
    THEN Raises
    ELSE LET d == data.bytes
             p == At(d, 3) % 128
             position == IF p > 100 THEN 100 ELSE p
         IN  Returned(Dict(
                 [calibration |-> Bool(Bit(At(d, 1), 6)),
                  paired |-> Bool(~Bit(At(d, 1), 4)),
                  battery |-> At(d, 2) % 128,
                  inMotion |-> Bool(Bit(At(d, 3), 7)),
                  position |-> IF reverse THEN 100 - position ELSE position,
                  lightLevel |-> (At(d, 4) \div 16) % 16,
                  deviceChain |-> At(d, 4) % 8]))

\* process_wocurtain with reverse = True, its default, as the registry
\* calls it (adv_parser.py, SUPPORTED_TYPES)
ProcessWocurtain(data, mfr_data) ==
    ProcessWocurtainReverse(data, mfr_data, TRUE)

\* temp_data of process_wosensorth (meter.py 13-21): the manufacturer data
\* come first
TempData(data, mfr_data) ==
    LET fromMfr == IF Given(mfr_data) THEN Slice(mfr_data.bytes, 8, 11)
                   ELSE <<>>
    IN  IF Given(data) /\ fromMfr = <<>>
        THEN Slice(data.bytes, 3, 6)
        ELSE fromMfr

\* The reading with an all-zero payload reported as any other
SensorReadingOfZeros(temp_data, battery) ==
    LET temp_c == (IF Bit(At(temp_data, 1), 7) THEN 1 ELSE -1)
                  * (((At(temp_data, 1) % 128) * 10)
                     + (At(temp_data, 0) % 16))
    IN  IF temp_data = <<>>
        THEN Returned(NoFields)
        ELSE IF Len(temp_data) < 3
        THEN Raises
        ELSE Returned(Dict(
                 [temp |-> temp_c,
                  temperature |-> temp_c,
                  fahrenheit |-> Bool(Bit(At(temp_data, 2), 7)),
                  humidity |-> At(temp_data, 2) % 128,
                  battery |-> battery]))

\* What process_wosensorth makes of temp_data and battery (meter.py
\* 24-47).  The temperature is in tenths of a degree Celsius; "temp" holds
\* its "c", of which its "f" is a function.
SensorReading(temp_data, battery) ==
    LET temp_c == (IF Bit(At(temp_data, 1), 7) THEN 1 ELSE -1)
                  * (((At(temp_data, 1) % 128) * 10)
                     + (At(temp_data, 0) % 16))
        humidity == At(temp_data, 2) % 128
    IN  IF temp_data = <<>>
        THEN Returned(NoFields)
        ELSE IF Len(temp_data) < 3
        THEN Raises
        ELSE IF temp_c = 0 /\ humidity = 0 /\ battery = 0
        THEN Returned(NoFields)
        ELSE Returned(Dict(
                 [temp |-> temp_c,
                  temperature |-> temp_c,
                  fahrenheit |-> Bool(Bit(At(temp_data, 2), 7)),
                  humidity |-> humidity,
                  battery |-> battery]))

\* process_wosensorth (adv_parsers/meter.py 11-47): data[2] of a service
\* data of one or two bytes raises IndexError
ProcessWosensorth(data, mfr_data) ==
    IF Given(data) /\ Len(data.bytes) < 3
    THEN Raises
    ELSE SensorReading(TempData(data, mfr_data),
                       IF Given(data) THEN At(data.bytes, 2) % 128
                       ELSE Null)

\* process_wohumidifier (adv_parsers/humidifier.py 18-33)
ProcessWohumidifier(data, mfr_data) ==
    IF data.none
    THEN Returned(Dict([isOn |-> Null, level |-> Null, switchMode |-> 1]))
    ELSE IF Len(data.bytes) < 5
    THEN Raises
    ELSE Returned(Dict(
             [isOn |-> Bool(At(data.bytes, 1) # 0),
              level |-> At(data.bytes, 4),
              switchMode |-> 1]))

\* process_wokeypad (adv_parsers/keypad.py 10-28) with lastStatus[0] = last:
\* what it returns or raises, and lastStatus[0] after it
ProcessWokeypad(data, mfr_data, last) ==
    IF data.none \/ mfr_data.none
    THEN [raised |-> FALSE, lastStatus |-> -1,
          data |-> Dict([battery |-> Null, attemptState |-> Null])]
    ELSE IF Len(mfr_data.bytes) < 7
    THEN [raised |-> TRUE, data |-> NoFields, lastStatus |-> last]
    ELSE LET m == At(mfr_data.bytes, 6)
             success == /\ last # -1
                        /\ \/ m > last /\ m - last >= 2
                           \/ m < last /\ m - last >= -254
         IN  IF Len(data.bytes) < 3
             THEN [raised |-> TRUE, data |-> NoFields, lastStatus |-> m]
             ELSE [raised |-> FALSE, lastStatus |-> m,
                   data |-> Dict([battery |-> At(data.bytes, 2),
                                  success |-> Bool(success)])]

\* process_worelay_switch_1pm (adv_parsers/relay_switch.py 6-20); the power
\* is in tenths of a watt
ProcessWorelaySwitch1pm(data, mfr_data) ==
    IF mfr_data.none
    THEN Returned(NoFields)
    ELSE IF Len(mfr_data.bytes) < 12
    THEN Raises
    ELSE LET m == mfr_data.bytes
         IN  Returned(Dict(
                 [switchMode |-> 1,
                  sequence_number |-> At(m, 6),
                  isOn |-> Bool(Bit(At(m, 7), 7)),
                  power |-> (At(m, 10) * 256) + At(m, 11),
                  voltage |-> 0,
                  current |-> 0]))

\* MFR_DATA_ORDER (adv_parser.py 40)
MFR_DATA_ORDER == <<2409, 741, 89>>

\* The entries of SUPPORTED_TYPES (adv_parser.py 53-199) that are modelled,
\* by the code of their tag: "H", "{", "c", "i", "T", "e", "y", "<".  A
\* manufacturer_data_length that is not declared is Absent.
SUPPORTED_TYPES ==
    (72 :> [modelName |-> "WoHand", func |-> "process_wohand",
            manufacturer_id |-> 89, manufacturer_data_length |-> Absent])
    @@ (123 :> [modelName |-> "WoCurtain", func |-> "process_wocurtain",
                manufacturer_id |-> 2409,
                manufacturer_data_length |-> Absent])
    @@ (99 :> [modelName |-> "WoCurtain", func |-> "process_wocurtain",
               manufacturer_id |-> 2409,
               manufacturer_data_length |-> Absent])
    @@ (105 :> [modelName |-> "WoSensorTH", func |-> "process_wosensorth",
                manufacturer_id |-> 2409,
                manufacturer_data_length |-> Absent])
    @@ (84 :> [modelName |-> "WoSensorTH", func |-> "process_wosensorth",
               manufacturer_id |-> 2409,
               manufacturer_data_length |-> Absent])
    @@ (101 :> [modelName |-> "WoHumi", func |-> "process_wohumidifier",
                manufacturer_id |-> 741, manufacturer_data_length |-> 6])
    @@ (121 :> [modelName |-> "WoKeypad", func |-> "process_wokeypad",
                manufacturer_id |-> 2409,
                manufacturer_data_length |-> Absent])
    @@ (60 :> [modelName |-> "Relay Switch 1PM",
               func |-> "process_worelay_switch_1pm",
               manufacturer_id |-> 2409,
               manufacturer_data_length |-> Absent])

\* The tags of SUPPORTED_TYPES in the order of the dict
Registered == <<72, 123, 99, 105, 84, 101, 121, 60>>

\* _SWITCHBOT_MODEL_TO_CHAR (adv_parser.py 201-204): of the tags with one
\* modelName the last one stays; Absent where the name is no key
SwitchbotModelToChar(name) ==
    LET at == {i \in 1..Len(Registered) :
                  SUPPORTED_TYPES[Registered[i]].modelName = name}
    IN  IF at = {}
        THEN Absent
        ELSE Registered[CHOOSE i \in at : \A j \in at : j <= i]

\* MODELS_BY_MANUFACTURER_DATA[mfr_id] (adv_parser.py 206-212)
ModelsByManufacturerData(mfr_id) ==
    SelectSeq(Registered,
              LAMBDA t : SUPPORTED_TYPES[t].manufacturer_id = mfr_id)

\* type_data["func"](_service_data, _mfr_data) (adv_parser.py 293)
Func(name, data, mfr_data, last) ==
    LET keep(r) == [raised |-> r.raised, data |-> r.data,
                    lastStatus |-> last]
    IN  CASE name = "process_wohand" -> keep(ProcessWohand(data, mfr_data))
          [] name = "process_wocurtain" ->
                 keep(ProcessWocurtain(data, mfr_data))
          [] name = "process_wosensorth" ->
                 keep(ProcessWosensorth(data, mfr_data))
          [] name = "process_wohumidifier" ->
                 keep(ProcessWohumidifier(data, mfr_data))
          [] name = "process_wokeypad" ->
                 ProcessWokeypad(data, mfr_data, last)
          [] name = "process_worelay_switch_1pm" ->
                 keep(ProcessWorelaySwitch1pm(data, mfr_data))

\* The model _parse_data settles on (adv_parser.py 269-278); Absent is None
SelectModel(in) ==
    LET tag == IF Given(in.service_data)
               THEN At(in.service_data.bytes, 0) % 128
               ELSE Absent
        hinted == IF in.model # "" /\ SwitchbotModelToChar(in.model) # Absent
                  THEN SwitchbotModelToChar(in.model)
                  ELSE tag
        models == ModelsByManufacturerData(in.mfr_id)
        fits == {i \in 1..Len(models) :
                    SUPPORTED_TYPES[models[i]].manufacturer_data_length
                        = Len(in.mfr_data.bytes)}
    IN  IF hinted # Absent
        THEN hinted
        ELSE IF in.mfr_id \in {Absent, 0}
                \/ \A i \in 1..Len(MFR_DATA_ORDER) :
                       MFR_DATA_ORDER[i] # in.mfr_id
                \/ fits = {}
        THEN Absent
        ELSE models[CHOOSE i \in fits : \A j \in fits : i <= j]

\* The dict _parse_data returns for a model (adv_parser.py 283-303) when
\* the decoder of the model returned or raised r
Described(in, model, r) ==
    LET plain == [none |-> FALSE, rawAdvData |-> in.service_data,
                  data |-> NoFields, model |-> model,
                  isEncrypted |-> /\ Given(in.service_data)
                                  /\ Bit(At(in.service_data.bytes, 0), 7),
                  named |-> FALSE]
    IN  IF r.raised
        THEN [raised |-> TRUE, val |-> NoData, lastStatus |-> r.lastStatus]
        ELSE IF r.data = NoFields
        THEN [raised |-> FALSE, val |-> plain, lastStatus |-> r.lastStatus]
        ELSE [raised |-> FALSE, lastStatus |-> r.lastStatus,
              val |-> [plain EXCEPT !.data = r.data, !.named = TRUE]]

\* _parse_data (adv_parser.py 280-303) once the model is selected, with
\* lastStatus[0] = last: a model that is not registered has no decoder
ParseDataOf(in, model, last) ==
    IF model = Absent
    THEN [raised |-> FALSE, val |-> NoData, lastStatus |-> last]
    ELSE IF model \notin DOMAIN SUPPORTED_TYPES
    THEN Described(in, model,
                   [raised |-> FALSE, data |-> NoFields,
                    lastStatus |-> last])
    ELSE Described(in, model,
                   Func(SUPPORTED_TYPES[model].func, in.service_data,
                        in.mfr_data, last))

\* _parse_data (adv_parser.py 262-303) without its cache: whether it
\* raised, what it returned, and lastStatus[0] after it
ParseData(in, last) == ParseDataOf(in, SelectModel(in), last)

\* lru_cache on a miss: what _parse_data returned is stored, and the least
\* recently used entry of a full cache is dropped; an exception is not
\* stored
Store(in, m, r) ==
    LET grown == Append(m, [key |-> in, val |-> r.val])
    IN  IF r.raised
        THEN [raised |-> TRUE, val |-> NoData, lastStatus |-> r.lastStatus,
              memo |-> m]
        ELSE [raised |-> FALSE, val |-> r.val, lastStatus |-> r.lastStatus,
              memo |-> IF Len(grown) > MaxSize THEN Tail(grown) ELSE grown]

\* lru_cache(maxsize) around _parse_data (adv_parser.py 261): a hit hands
\* out the dict that was stored and makes it the most recently used
CachedParseData(in, m, last) ==
    LET hits == {i \in 1..Len(m) : m[i].key = in}
        e == m[CHOOSE h \in hits : TRUE]
    IN  IF hits # {}
        THEN [raised |-> FALSE, val |-> e.val, lastStatus |-> last,
              memo |-> Append(SelectSeq(m, LAMBDA x : x.key # in), e)]
        ELSE Store(in, m, ParseData(in, last))

\* SwitchBotAdvertisement(...) of what _parse_data returned or raised
\* (adv_parser.py 247-258)
Advertised(in, r) ==
    [out |-> IF r.raised \/ r.val.none
             THEN NoAdvertisement
             ELSE [none |-> FALSE, data |-> r.val,
                   active |-> Given(in.service_data)],
     raised |-> r.raised, memo |-> r.memo, lastStatus |-> r.lastStatus]

\* parse_advertisement_data (adv_parser.py 215-258) of the service data and
\* manufacturer data it found in the advertisement
ParseAdvertisementData(in, m, last) ==
    IF in.mfr_data.none /\ in.service_data.none
    THEN [out |-> NoAdvertisement, raised |-> FALSE, memo |-> m,
          lastStatus |-> last]
    ELSE Advertised(in, CachedParseData(in, m, last))

\* The state after a call of parse_advertisement_data that came to r
Parsed(in, r) ==
    /\ parsed' = [in |-> in, out |-> r.out, raised |-> r.raised,
                  at |-> "returned"]
    /\ memo' = r.memo
    /\ lastStatus' = r.lastStatus
    /\ seen' = IF \E e \in seen : e.in = in
               THEN seen
               ELSE seen \cup {[in |-> in, out |-> r.out]}
    /\ UNCHANGED <<engine, cls, sb_adv_data, override_adv_data, applied,
                   chk, turned, decoded, covers, keying>>

\* A call of parse_advertisement_data
Parse(in) == Parsed(in, ParseAdvertisementData(in, memo, lastStatus))

\* The advertisement drawn is parsed.
ParseDrawn ==
    /\ parsed.at = "drawn"
    /\ Parse(parsed.in)

\* The manufacturer data an advertisement may carry
Manufacturers ==
    {[mfr_id |-> Absent, mfr_data |-> NoResult]}
    \cup {[mfr_id |-> MFR_DATA_ORDER[i], mfr_data |-> Some(Fill(n, b))] :
             i \in 1..Len(MFR_DATA_ORDER), n \in MfrLengths, b \in ByteVals}

\* The service data an advertisement may carry: none, empty, or a tag and
\* up to MaxBody equal bytes
ServiceDatas ==
    {NoResult, Some(<<>>)}
    \cup {Some(<<t>> \o Fill(n, b)) :
             t \in TagBytes, n \in 0..MaxBody, b \in ByteVals}

\* The input of one call
Input(sd, mf, hint) ==
    [service_data |-> sd, mfr_data |-> mf.mfr_data, mfr_id |-> mf.mfr_id,
     model |-> hint]

\* An advertisement of any device, before it is parsed; earlier calls may
\* have left any lastStatus and an empty cache.
InitDecode ==
    /\ cls = "device"
    /\ encrypted = FALSE
    /\ retry_count = 0
    /\ Constructed
    /\ chk = NoCheck
    /\ cover = NoCover
    /\ got = NoGot
    /\ session = NoSession
    /\ made = NoMade
    /\ memo = <<>>
    /\ seen = {}
    /\ decoded = NoDecoded
    /\ lastStatus \in {-1} \cup ByteVals
    /\ \E sd \in ServiceDatas, mf \in Manufacturers, hint \in Hints :
           parsed = [NoParsed EXCEPT !.in = Input(sd, mf, hint),
                                     !.at = "drawn"]

NextDecode == ParseDrawn

SpecDecode == InitDecode /\ [][NextDecode]_vars

\* The service data of curtains tried: the tag "c", every position byte,
\* the flag bytes and the battery bytes that set and clear each bit read,
\* with and without a sixth byte, and two that are too short
CurtainServiceDatas ==
    {Some(<<99, b1, b2, b3, b4>> \o t) :
        b1 \in {0, 16, 64, 192}, b2 \in {0, 88, 255}, b3 \in 0..255,
        b4 \in {0, 17, 247}, t \in {<<>>, <<4>>}}
    \cup {Some(<<99>>), Some(<<99, 192, 88, 0>>)}

\* A call of process_wocurtain: what it returns, or that it raises
CallProcessWocurtain ==
    /\ decoded.at = "drawn"
    /\ LET r == ProcessWocurtainReverse(decoded.data, NoResult,
                                        decoded.reverse)
       IN  decoded' = [decoded EXCEPT !.raised = r.raised, !.out = r.data,
                                      !.at = "returned"]
    /\ UNCHANGED <<engine, cls, sb_adv_data, override_adv_data, applied,
                   chk, turned, lastStatus, memo, parsed, seen, covers,
                   keying>>

\* The service data of a curtain, before they are decoded.
InitCurtain ==
    /\ cls = "device"
    /\ encrypted = FALSE
    /\ retry_count = 0
    /\ Constructed
    /\ chk = NoCheck
    /\ cover = NoCover
    /\ got = NoGot
    /\ session = NoSession
    /\ made = NoMade
    /\ lastStatus = -1
    /\ memo = <<>>
    /\ seen = {}
    /\ parsed = NoParsed
    /\ \E sd \in CurtainServiceDatas, reverse \in BOOLEAN :
           decoded = [NoDecoded EXCEPT !.data = sd, !.reverse = reverse,
                                      !.at = "drawn"]

NextCurtain == CallProcessWocurtain

SpecCurtain == InitCurtain /\ [][NextCurtain]_vars

\* The service data of meters: the tags "T" and "i", and "T" with the high
\* bit set, and up to MaxBody bytes
MeterServiceDatas ==
    {Some(<<t>> \o b) :
        t \in {84, 105, 212},
        b \in UNION {[1..n -> ByteVals] : n \in 0..MaxBody}}

\* An advertisement of a meter, before it is parsed.
InitMeter ==
    /\ cls = "device"
    /\ encrypted = FALSE
    /\ retry_count = 0
    /\ Constructed
    /\ chk = NoCheck
    /\ cover = NoCover
    /\ got = NoGot
    /\ session = NoSession
    /\ made = NoMade
    /\ Imported
    /\ \E sd \in MeterServiceDatas, hint \in {"", "WoSensorTH"},
          mf \in {m \in Manufacturers :
                     m.mfr_data.none \/ Len(m.mfr_data.bytes) = 12} :
           parsed = [NoParsed EXCEPT !.in = Input(sd, mf, hint),
                                     !.at = "drawn"]

SpecMeter == InitMeter /\ [][NextDecode]_vars

\* The advertisements parsed again and again: of a relay switch and of a
\* keypad, each with two manufacturer data
MemoInputs ==
    {Input(Some(<<t>> \o Fill(2, 0)),
           [mfr_id |-> 2409, mfr_data |-> Some(Fill(12, b))], "") :
        t \in {60, 121}, b \in {0, 128}}

\* Any of the advertisements is parsed.
ParseAny == \E in \in MemoInputs : Parse(in)

\* The field map of the facade's cache that stands for the dict d: of its
\* keys, those the relay switch carries over and turns
AsAdvert(d) ==
    [f \in Fields |->
        IF f \notin {"isOn", "voltage", "current"}
           \/ d[f] \in {Omitted, Null}
        THEN Absent
        ELSE d[f]]

\* update_from_advertisement (relay_switch.py 52-61, device.py 477-480) of
\* the advertisement parse_advertisement_data just returned, that of a
\* relay switch: advertisement.data is the dict _parse_data returned, which
\* its cache holds, and the relay switch writes to its "data".
UpdateFromParsed ==
    /\ parsed.at \in {"returned", "used"}
    /\ ~parsed.out.none
    /\ parsed.out.data.model = 60
    /\ LET d0 == parsed.out.data.data
           d1 == IF cls = "relay"
                 THEN RelayCarryOver(sb_adv_data, override_adv_data, d0)
                 ELSE d0
           r == SetAdvertisementData(sb_adv_data, override_adv_data,
                                     AsAdvert(d1))
       IN  /\ sb_adv_data' = r.sb
           /\ override_adv_data' = r.ov
           /\ applied' = [NoApplied EXCEPT !.data = AsAdvert(d0),
                                           !.stored = r.stored,
                                           !.raised = r.raised]
           /\ parsed' = [parsed EXCEPT !.out.data.data = d1, !.at = "used"]
           /\ memo' = [i \in 1..Len(memo) |->
                          IF memo[i].key = parsed.in
                          THEN [memo[i] EXCEPT !.val.data = d1]
                          ELSE memo[i]]
    /\ UNCHANGED <<engine, cls, chk, turned, lastStatus, seen, decoded,
                   covers, keying>>

\* A relay switch, and the advertisement parser next to it.
InitMemo ==
    /\ cls = "relay"
    /\ encrypted = TRUE
    /\ retry_count = 0
    /\ Constructed
    /\ chk = NoCheck
    /\ Untouched

NextMemo ==
    \/ ParseAny
    \/ UpdateFromParsed
    \/ \E data \in RelayAdverts : UpdateFromAdvertisement(data)

SpecMemo == InitMemo /\ [][NextMemo]_vars

\* ------------------------------------------------------ cover devices
\* The bytes tried in the responses to the reads of a cover: no bit set,
\* and bit 4 set, which is no index of _state_of_charge
CoverBytes == {0, 16}

\* The exceptions _send_command raises once its attempts are used up
\* (device.py 163, 180)
Exhausted == {"timeout", "bleak", "charmissing"}

\* The exceptions _send_command raises (device.py 153, 163, 180)
Errors == Exhausted \cup {"notfound"}

\* How _send_command ends for a read: it raises, or it returns None, b"",
\* b"\x07", b"\x00", or the status byte 1 and up to MaxResp - 1 bytes
SendCommandResults ==
    {[err |-> e, resp |-> NoResult] : e \in Errors}
    \cup {[err |-> "none", resp |-> r] :
             r \in {NoResult, Some(<<>>), Some(<<7>>), Some(<<0>>)}
                   \cup {Some(<<1>> \o b) :
                            b \in UNION {[1..n -> CoverBytes] :
                                            n \in 0..(MaxResp - 1)}}}

\* _data in (b"\x07", b"\x00")
Unsuccessful(resp) == resp \in {Some(<<7>>), Some(<<0>>)}

\* What a read was given by _send_command
GivenAs(r) ==
    IF r.err # "none" THEN r.err
    ELSE IF r.resp.none THEN "absent"
    ELSE IF r.resp.bytes = <<>> THEN "empty"
    ELSE IF Unsuccessful(r.resp) THEN "unsuccessful"
    ELSE "bytes"

\* A read ends: the dict it holds on to, and whether it returned None,
\* returned the dict ("map") or raised
ReadEnds(ext, out) == [ext |-> ext, out |-> out]

\* get_extended_info_adv from the response on (base_cover.py 97-120,
\* curtain.py 163-186) where ext_info_adv is ext and the response d: the
\* firmware is kept in tenths and the state of charge as its index
ExtendedInfoAdvOf(ext, d) ==
    LET ext0 == [ext EXCEPT !.device0 =
                     [some |-> TRUE, battery |-> At(d, 1),
                      firmware |-> At(d, 2), stateOfCharge |-> At(d, 3)]]
    IN  IF Len(d) < 4 \/ At(d, 3) > 5
        THEN ReadEnds(ext, "raised")
        ELSE IF Len(d) < 5
        THEN ReadEnds(ext0, "raised")
        ELSE IF At(d, 4) = 0
        THEN ReadEnds(ext0, "map")
        ELSE IF Len(d) < 7 \/ At(d, 6) > 5
        THEN ReadEnds(ext0, "raised")
        ELSE ReadEnds([ext0 EXCEPT !.device1 =
                           [some |-> TRUE, battery |-> At(d, 4),
                            firmware |-> At(d, 5),
                            stateOfCharge |-> At(d, 6)]], "map")

\* get_extended_info_adv (base_cover.py 85-120, curtain.py 151-186) where
\* _send_command ended with r
ExtendedInfoAdv(ext, r) ==
    IF r.err # "none"
    THEN ReadEnds(ext, "raised")
    ELSE IF ~Given(r.resp) \/ Unsuccessful(r.resp)
    THEN ReadEnds(ext, "none")
    ELSE ExtendedInfoAdvOf(ext, r.resp.bytes)

\* The block get_extended_info_summary makes of _data[1] (curtain.py
\* 129-147): device0 compares _data[1] & 0b00010000 with 1, device1 takes
\* its truth
SumBlock(b, first) ==
    [some |-> TRUE,
     openDirectionDefault |-> ~Bit(b, 7),
     touchToOpen |-> Bit(b, 6),
     light |-> Bit(b, 5),
     openDirection |->
         IF first
         THEN IF (IF Bit(b, 4) THEN 16 ELSE 0) = 1
              THEN "left_to_right" ELSE "right_to_left"
         ELSE IF Bit(b, 4) THEN "left_to_right" ELSE "right_to_left"]

\* get_extended_info_summary (curtain.py 117-149) where _send_command ended
\* with r
ExtendedInfoSummary(ext, r) ==
    IF r.err # "none"
    THEN ReadEnds(ext, "raised")
    ELSE IF ~Given(r.resp) \/ Unsuccessful(r.resp)
    THEN ReadEnds(ext, "none")
    ELSE IF Len(r.resp.bytes) < 2
    THEN ReadEnds(ext, "raised")
    ELSE IF Len(r.resp.bytes) < 3
    THEN ReadEnds([ext EXCEPT !.device0 =
                       SumBlock(At(r.resp.bytes, 1), TRUE)], "raised")
    ELSE IF At(r.resp.bytes, 2) = 0
    THEN ReadEnds([ext EXCEPT !.device0 =
                       SumBlock(At(r.resp.bytes, 1), TRUE)], "map")
    ELSE ReadEnds([ext EXCEPT !.device0 =
                       SumBlock(At(r.resp.bytes, 1), TRUE),
                              !.device1 =
                       SumBlock(At(r.resp.bytes, 1), FALSE)], "map")

\* _get_basic_info (device.py 415-425) where _send_command ended with r:
\* it raises what _send_command raised, and returns what it was given
\* unless that is b"\x07" or b"\x00"
BasicInfo(r) ==
    IF r.err = "none" /\ Unsuccessful(r.resp)
    THEN [err |-> "none", resp |-> NoResult]
    ELSE r

\* get_basic_info of a curtain (curtain.py 94-115) where _get_basic_info
\* ended with r: None, or the dict made of _data[1] to _data[7], which is
\* not kept here
CurtainBasicInfo(r) ==
    IF r.err # "none"
    THEN "raised"
    ELSE IF ~Given(r.resp)
    THEN "none"
    ELSE IF Len(r.resp.bytes) < 8
    THEN "raised"
    ELSE "map"

\* The byte of the response that tells of a second unit is there and not 0
Flagged(r, i) ==
    /\ r.err = "none"
    /\ ~r.resp.none
    /\ Len(r.resp.bytes) > i
    /\ At(r.resp.bytes, i) # 0

\* The state after a read of kind read that was given r and came to res
ReadDone(read, r, flag, res) ==
    /\ got' = [NoGot EXCEPT !.read = read, !.given = GivenAs(r),
                            !.flag = flag, !.out = res.out]
    /\ cover' = IF read = "adv"
                THEN [cover EXCEPT !.ext_info_adv = res.ext]
                ELSE IF read = "sum"
                THEN [cover EXCEPT !.ext_info_sum = res.ext]
                ELSE cover
    /\ UNCHANGED <<engine, cls, sb_adv_data, override_adv_data, applied,
                   chk, turned, codec, keying>>

\* get_extended_info_adv is called.
GetExtendedInfoAdv(r) ==
    ReadDone("adv", r, Flagged(r, 4), ExtendedInfoAdv(cover.ext_info_adv, r))

\* get_extended_info_summary is called.
GetExtendedInfoSummary(r) ==
    ReadDone("sum", r, Flagged(r, 2),
             ExtendedInfoSummary(cover.ext_info_sum, r))

\* get_basic_info is called.
GetBasicInfo(r) ==
    ReadDone("basic", r, FALSE,
             ReadEnds(NoExtInfoAdv, CurtainBasicInfo(BasicInfo(r))))

\* A curtain after its constructor.
InitCover ==
    /\ cls = "device"
    /\ encrypted = FALSE
    /\ retry_count = 0
    /\ Constructed
    /\ chk = NoCheck
    /\ Untouched

NextCover ==
    \E r \in SendCommandResults :
        \/ GetExtendedInfoAdv(r)
        \/ GetExtendedInfoSummary(r)
        \/ GetBasicInfo(r)

SpecCover == InitCover /\ [][NextCover]_vars

\* The advertisements of a blind tilt: in motion or not, and a tilt
TiltAdverts == [inMotion : BOOLEAN, tilt : 0..MaxTilt]

\* _update_motion_direction that leaves the direction alone when the blind
\* is not in motion
UpdateMotionDirectionKept(c, in_motion, previous_tilt, new_tilt) ==
    IF previous_tilt = Absent \/ ~in_motion \/ new_tilt = previous_tilt
    THEN c
    ELSE [c EXCEPT !.is_opening = new_tilt > previous_tilt,
                   !.is_closing = new_tilt < previous_tilt]

\* _update_motion_direction (blind_tilt.py 60-72) of the cover c
UpdateMotionDirection(c, in_motion, previous_tilt, new_tilt) ==
    IF previous_tilt = Absent
    THEN c
    ELSE IF ~in_motion
    THEN [c EXCEPT !.is_closing = FALSE, !.is_opening = FALSE]
    ELSE IF new_tilt # previous_tilt
    THEN [c EXCEPT !.is_opening = new_tilt > previous_tilt,
                   !.is_closing = new_tilt < previous_tilt]
    ELSE c

\* _set_parsed_data of the base class, which blind_tilt.py 58 calls and
\* src/ lacks: the fields of the advertisement become the cached ones
BaseSetParsedData(c, data) == [c EXCEPT !.tilt = data.tilt]

\* SwitchbotBlindTilt._set_parsed_data (blind_tilt.py 50-58) is called with
\* the fields of an advertisement, as it is for every advertisement with
\* fields that the device is fed: previous_tilt is _get_adv_value("tilt")
SetParsedData(data) ==
    /\ cover' = BaseSetParsedData(
                    UpdateMotionDirection(cover, data.inMotion, cover.tilt,
                                          data.tilt), data)
    /\ got' = [NoGot EXCEPT !.read = "tilt", !.in_motion = data.inMotion,
                            !.previous_tilt = cover.tilt,
                            !.new_tilt = data.tilt,
                            !.was_opening = cover.is_opening,
                            !.was_closing = cover.is_closing]
    /\ UNCHANGED <<engine, cls, sb_adv_data, override_adv_data, applied,
                   chk, turned, codec, keying>>

\* A blind tilt after its constructor.
InitTilt ==
    /\ cls = "device"
    /\ encrypted = FALSE
    /\ retry_count = 0
    /\ Constructed
    /\ chk = NoCheck
    /\ Untouched

NextTilt == \E data \in TiltAdverts : SetParsedData(data)

SpecTilt == InitTilt /\ [][NextTilt]_vars

\* How _send_multiple_commands ends: it returns True or False, or raises
CommandEnds == {"true", "false", "raised"}

\* A command that sets its own flag and leaves the other
MoveCommandOneFlag(op, opening, out) ==
    /\ cover' = IF opening THEN [cover EXCEPT !.is_opening = TRUE]
                ELSE [cover EXCEPT !.is_closing = TRUE]
    /\ got' = [NoGot EXCEPT !.read = op, !.out = out,
                            !.was_opening = cover.is_opening,
                            !.was_closing = cover.is_closing]
    /\ UNCHANGED <<engine, cls, sb_adv_data, override_adv_data, applied,
                   chk, turned, codec, keying>>

\* open, close_up and close_down (blind_tilt.py 74-93): the direction is
\* set before the commands are sent, however they end
MoveCommand(op, opening, out) ==
    /\ cover' = [cover EXCEPT !.is_opening = opening,
                              !.is_closing = ~opening]
    /\ got' = [NoGot EXCEPT !.read = op, !.out = out,
                            !.was_opening = cover.is_opening,
                            !.was_closing = cover.is_closing]
    /\ UNCHANGED <<engine, cls, sb_adv_data, override_adv_data, applied,
                   chk, turned, codec, keying>>

Open(out) == MoveCommand("open", TRUE, out)

CloseUp(out) == MoveCommand("close_up", FALSE, out)

CloseDown(out) == MoveCommand("close_down", FALSE, out)

\* A blind tilt that is commanded and fed advertisements
NextBlind ==
    \/ \E data \in TiltAdverts : SetParsedData(data)
    \/ \E out \in CommandEnds : Open(out)
    \/ \E out \in CommandEnds : CloseUp(out)
    \/ \E out \in CommandEnds : CloseDown(out)

SpecBlind == InitTilt /\ [][NextBlind]_vars

\* ------------------------------------------------- encrypted commands
\* A str of hex digits is a sequence of the digits' values; NotHex stands
\* for a character that is no hex digit.
HexStrings(n, chars) == [1..n -> chars]

\* bytes.fromhex accepts the str: an even number of hex digits
IsHex(h) == Len(h) % 2 = 0 /\ \A i \in 1..Len(h) : h[i] # NotHex

\* bytearray.fromhex(h) of a str it accepts
FromHex(h) == [i \in 1..(Len(h) \div 2) |-> (h[(2 * i) - 1] * 16) + h[2 * i]]

\* b.hex()
Hex(b) ==
    [i \in 1..(2 * Len(b)) |->
        IF i % 2 = 1 THEN b[(i + 1) \div 2] \div 16 ELSE b[i \div 2] % 16]

\* a ^ b of the n low bits
RECURSIVE XorBits(_, _, _)
XorBits(a, b, n) ==
    IF n = 0
    THEN 0
    ELSE ((a + b) % 2) + (2 * XorBits(a \div 2, b \div 2, n - 1))

\* a ^ b of two bytes
Xor(a, b) == XorBits(a, b, 8)

\* Byte i of the keystream of AES-128 in CTR mode under key and the
\* initial counter block nonce.  AES is stood for by a function of the
\* ends of the key and of the counter block and of the position; CTR is
\* what the code relies on: the keystream is set by key, counter block and
\* position alone.
KeystreamByte(key, nonce, i) ==
    ((key[1] * 7) + (key[Len(key)] * 3) + (nonce[1] * 13)
     + (nonce[Len(nonce)] * 5) + (i * 29) + 11) % 256

\* update(data) + finalize() of an encryptor or a decryptor the cipher has
\* just made: in CTR mode both XOR the data with the keystream from its
\* start
Ctr(key, nonce, data) ==
    [i \in 1..Len(data) |-> Xor(data[i], KeystreamByte(key, nonce, i - 1))]

\* _get_cipher (lock.py 387-392, relay_switch.py 177-182) of the session se
LockGetCipher(se) ==
    IF se.cipher.none
    THEN [se EXCEPT !.cipher = [none |-> FALSE, key |-> se.encryption_key,
                                iv |-> se.iv.bytes]]
    ELSE se

\* What _encrypt and _decrypt come to: the session after it, whether it
\* raised, and what it returned
Ciphered(se, raised, out) == [se |-> se, raised |-> raised, out |-> out]

\* _encrypt (lock.py 394-398) of the str data, hex digits: modes.CTR(None)
\* raises TypeError
LockEncrypt(se, data) ==
    IF data = <<>>
    THEN Ciphered(se, FALSE, <<>>)
    ELSE IF se.cipher.none /\ se.iv.none
    THEN Ciphered(se, TRUE, <<>>)
    ELSE Ciphered(LockGetCipher(se), FALSE,
                  Hex(Ctr(LockGetCipher(se).cipher.key,
                          LockGetCipher(se).cipher.iv, FromHex(data))))

\* _decrypt whose decryptor goes on where the last encryptor stopped
LockDecryptContinued(se, data) ==
    IF data = <<>>
    THEN Ciphered(se, FALSE, <<>>)
    ELSE IF se.cipher.none /\ se.iv.none
    THEN Ciphered(se, TRUE, <<>>)
    ELSE Ciphered(LockGetCipher(se), FALSE,
                  [i \in 1..Len(data) |->
                      Xor(data[i],
                          KeystreamByte(LockGetCipher(se).cipher.key,
                                        LockGetCipher(se).cipher.iv,
                                        Len(data) + i - 1))])

\* _decrypt (lock.py 400-404) of the bytes data
LockDecrypt(se, data) ==
    IF data = <<>>
    THEN Ciphered(se, FALSE, <<>>)
    ELSE IF se.cipher.none /\ se.iv.none
    THEN Ciphered(se, TRUE, <<>>)
    ELSE Ciphered(LockGetCipher(se), FALSE,
                  Ctr(LockGetCipher(se).cipher.key,
                      LockGetCipher(se).cipher.iv, data))

\* COMMAND_GET_CK_IV (lock.py 25): "570f2103"
COMMAND_GET_CK_IV == <<5, 7, 0, 15, 2, 1, 0, 3>>

\* COMMAND_RESULT_EXPECTED_VALUES (lock.py 52)
COMMAND_RESULT_EXPECTED_VALUES == {1, 6}

\* The key of _send_command(key, encrypt=False) as the base class gets it
\* (lock.py 354-355)
Unencrypted(key) == SubSeq(key, 1, 2) \o <<0, 0, 0, 0, 0, 0>> \o SubSeq(key, 3, Len(key))

\* _ensure_encryption_initialized (lock.py 368-379) where the device
\* answers the request for the IV with ivres: the session after it, and
\* "true", "false" or "raise".  An IV that is there is kept; a key that is
\* no hex str raises ValueError in the base class (device.py 133) before
\* anything is written.
EnsureEncryptionInitialized(se, ivres) ==
    LET ok == CheckCommandResult(ivres, 0, COMMAND_RESULT_EXPECTED_VALUES)
    IN  IF ~se.iv.none
        THEN [se |-> se, ok |-> "true"]
        ELSE IF ~IsHex(Unencrypted(COMMAND_GET_CK_IV \o se.key_id))
        THEN [se |-> se, ok |-> "raise"]
        ELSE IF ok = "true"
        THEN [se |-> [se EXCEPT !.asked = TRUE,
                                !.iv = Some(Slice(ivres.bytes, 4,
                                                  Len(ivres.bytes)))],
              ok |-> ok]
        ELSE [se |-> [se EXCEPT !.asked = TRUE], ok |-> ok]

\* The end of the encrypted _send_command (lock.py 366) where the response
\* is resp and its tail was decrypted to d: None[:1] raises TypeError
Answered(written, resp, d) ==
    [d.se EXCEPT !.written = Some(written),
                 !.out = IF resp.none \/ d.raised THEN "raised" ELSE "bytes",
                 !.result = IF resp.none \/ d.raised
                            THEN <<>>
                            ELSE Slice(resp.bytes, 0, 1) \o d.out]

\* The encrypted _send_command that decrypts the response from byte 3 on
SendFrameFromThree(se, key, e, resp) ==
    IF e.raised
    THEN [e.se EXCEPT !.out = "raised"]
    ELSE Answered(FromHex(SubSeq(key, 1, 2) \o se.key_id
                          \o Hex(Slice(se.iv.bytes, 0, 2)) \o e.out),
                  resp,
                  LockDecrypt(e.se, IF resp.none THEN <<>>
                                    ELSE Slice(resp.bytes, 3,
                                               Len(resp.bytes))))

\* The encrypted _send_command from the frame on (lock.py 362-366) where
\* the rest of the key was encrypted to e and the response is resp
SendFrame(se, key, e, resp) ==
    IF e.raised
    THEN [e.se EXCEPT !.out = "raised"]
    ELSE Answered(FromHex(SubSeq(key, 1, 2) \o se.key_id
                          \o Hex(Slice(se.iv.bytes, 0, 2)) \o e.out),
                  resp,
                  LockDecrypt(e.se, IF resp.none THEN <<>>
                                    ELSE Slice(resp.bytes, 4,
                                               Len(resp.bytes))))

\* The encrypted _send_command after _ensure_encryption_initialized came to
\* i (lock.py 357-366)
SendInitialized(i, key, resp) ==
    IF i.ok = "raise"
    THEN [i.se EXCEPT !.out = "raised"]
    ELSE IF i.ok = "false"
    THEN [i.se EXCEPT !.out = "none"]
    ELSE SendFrame(i.se, key,
                   LockEncrypt(i.se, SubSeq(key, 3, Len(key))), resp)

\* SwitchbotLock._send_command(key) (lock.py 351-366) on the session se
LockSendCommand(se, key, ivres, resp) ==
    SendInitialized(
        EnsureEncryptionInitialized(
            [se EXCEPT !.op = "command", !.key = key, !.response = resp,
                       !.written = NoResult, !.asked = FALSE,
                       !.result = <<>>, !.data = NoResult,
                       !.opened = <<>>, !.between = 1],
            ivres),
        key, resp)

\* The bytes tried in what is encrypted
PayloadBytes == {0, 255}

\* The payloads: up to MaxPayload bytes, all of them one byte
Payloads == {Fill(n, b) : n \in 0..MaxPayload, b \in PayloadBytes}

\* The keys of the commands: COMMAND_HEADER "57" and a payload in hex
Commands == {<<5, 7>> \o Hex(p) : p \in Payloads}

\* The IVs a lock hands out: 16 bytes
IVs == {Fill(16, 0), <<1, 2>> \o Fill(14, 3)}

\* The answers to the request for the IV: none, a refusal, an IV
IvResults ==
    {NoResult, Some(<<7>>)} \cup {Some(<<1, 0, 0, 0>> \o v) : v \in IVs}

\* The responses to an encrypted command: none, ones too short to hold a
\* payload, and a status, three bytes of framing and a payload
LockResponses ==
    {NoResult, Some(<<>>), Some(<<1, 9, 9>>)}
    \cup {Some(<<1, 9, 9, 9>> \o c) : c \in {<<0>>, <<255, 0>>}}

\* The state after a step of the session that came to se
Keyed(se) ==
    /\ session' = se
    /\ UNCHANGED <<engine, cls, sb_adv_data, override_adv_data, applied,
                   chk, turned, codec, covers, made, pushed>>

\* An encrypted command is sent: the lock is asked for the IV only when
\* the session has none.
SendEncryptedCommand ==
    /\ made.out = "constructed"
    /\ \E key \in Commands, resp \in LockResponses,
          ivres \in (IF session.iv.none THEN IvResults ELSE {NoResult}) :
           Keyed(LockSendCommand(session, key, ivres, resp))

\* What a call of _encrypt with the payload p leaves in the session
Encrypted(p, e) ==
    [e.se EXCEPT !.op = "encrypt", !.key = <<>>, !.response = NoResult,
                 !.asked = FALSE, !.written = NoResult,
                 !.out = IF e.raised THEN "raised" ELSE "bytes",
                 !.result = <<>>, !.plain = p,
                 !.sealed = IF e.raised THEN NoResult
                            ELSE Some(FromHex(e.out)),
                 !.data = NoResult, !.opened = <<>>, !.between = 0]

\* _encrypt is called with a payload in hex.
Encrypt ==
    /\ made.out = "constructed"
    /\ \E p \in Payloads :
           Keyed(Encrypted(p, LockEncrypt(session, Hex(p))))

\* What a call of _decrypt leaves in the session
Decrypted(se, data, d) ==
    [d.se EXCEPT !.op = "decrypt", !.key = <<>>, !.response = NoResult,
                 !.asked = FALSE, !.written = NoResult,
                 !.out = IF d.raised THEN "raised" ELSE "bytes",
                 !.result = <<>>, !.data = Some(data), !.opened = d.out,
                 !.between = IF se.sealed = Some(data) THEN @ ELSE 1]

\* _decrypt is called with bytes, those of the last _encrypt among them.
Decrypt ==
    /\ made.out = "constructed"
    /\ \E data \in Payloads \cup {session.sealed.bytes} :
           Keyed(Decrypted(session, data, LockDecrypt(session, data)))

\* _execute_disconnect (lock.py 381-385): the IV and the cipher go, and
\* with them the session; what was encrypted in it is followed no further.
\* Notifications are off again.
LockExecuteDisconnect ==
    /\ made.out = "constructed"
    /\ session' = [NoSession EXCEPT !.key_id = session.key_id,
                                    !.encryption_key = session.encryption_key,
                                    !.op = "disconnect"]
    /\ pushed' = [pushed EXCEPT !.notifications_enabled = FALSE,
                                !.data = NoResult, !.out = "none",
                                !.enabled = FALSE, !.waiting = FALSE,
                                !.before = NoLockData]
    /\ UNCHANGED <<engine, cls, sb_adv_data, override_adv_data, applied,
                   chk, turned, codec, covers, made>>

\* The models a lock may be made for and one it may not (lock.py 76)
LockModels == {"lock", "lock_pro", "bot"}

\* SwitchbotLock.__init__ (lock.py 60-85): what it raises, or
\* "constructed"
LockInit(key_id, encryption_key, model) ==
    IF Len(key_id) = 0 THEN "key_id is missing"
    ELSE IF Len(key_id) # KeyIdLength THEN "key_id is invalid"
    ELSE IF Len(encryption_key) = 0 THEN "encryption_key is missing"
    ELSE IF Len(encryption_key) # KeyLength THEN "encryption_key is invalid"
    ELSE IF model \notin {"lock", "lock_pro"} THEN "non-lock model"
    ELSE IF ~IsHex(encryption_key) THEN "fromhex"
    ELSE "constructed"

\* The lock SwitchbotLock(device, key_id, encryption_key, model=model)
\* makes (lock.py 78-85)
NewSession(key_id, encryption_key) ==
    [NoSession EXCEPT !.key_id = key_id,
                      !.encryption_key = FromHex(encryption_key)]

\* The arguments tried: key_ids of up to MaxKeyId characters, "f" or one
\* that is no hex digit, and encryption_keys of 0, 31, 32 and 33 characters
KeyIds == UNION {HexStrings(n, {15, NotHex}) : n \in 0..MaxKeyId}
EncryptionKeys ==
    {<<>>, Fill(KeyLength - 1, 15), Fill(KeyLength, 15),
     Fill(KeyLength, NotHex), Fill(KeyLength, 0), Fill(KeyLength + 1, 15)}

\* SwitchbotLock(...) is called; a lock that was made is used from then on.
Construct ==
    /\ made.out # "constructed"
    /\ \E key_id \in KeyIds, encryption_key \in EncryptionKeys,
          model \in LockModels :
           /\ made' = [key_id |-> key_id, encryption_key |-> encryption_key,
                       model |-> model,
                       out |-> LockInit(key_id, encryption_key, model)]
           /\ session' = IF LockInit(key_id, encryption_key, model)
                             = "constructed"
                         THEN NewSession(key_id, encryption_key)
                         ELSE NoSession
    /\ pushed' = NoPushed
    /\ UNCHANGED <<engine, cls, sb_adv_data, override_adv_data, applied,
                   chk, turned, codec, covers>>

\* No lock yet.
InitKey ==
    /\ cls = "device"
    /\ encrypted = TRUE
    /\ retry_count = 0
    /\ Constructed
    /\ chk = NoCheck
    /\ Untouched

NextKey == Construct \/ SendEncryptedCommand

SpecKey == InitKey /\ [][NextKey]_vars

\* A lock made with a key_id and an encryption_key of hex digits.
InitCrypt ==
    /\ cls = "device"
    /\ encrypted = TRUE
    /\ retry_count = 0
    /\ Constructed
    /\ chk = NoCheck
    /\ Imported
    /\ parsed = NoParsed
    /\ cover = NoCover
    /\ got = NoGot
    /\ \E encryption_key \in {Fill(KeyLength, 15), Fill(KeyLength, 0)} :
           /\ made = [key_id |-> <<15, 15>>,
                      encryption_key |-> encryption_key, model |-> "lock",
                      out |-> LockInit(<<15, 15>>, encryption_key, "lock")]
           /\ session = NewSession(<<15, 15>>, encryption_key)

NextCrypt ==
    \/ SendEncryptedCommand
    \/ Encrypt
    \/ Decrypt
    \/ LockExecuteDisconnect

SpecCrypt == InitCrypt /\ [][NextCrypt]_vars

\* ------------------------------------------------- lock notifications
\* COMMAND_ENABLE_NOTIFICATIONS (lock.py 43): "570e01001e00008101"
COMMAND_ENABLE_NOTIFICATIONS ==
    <<5, 7, 0, 14, 0, 1, 0, 0, 1, 14, 0, 0, 0, 0, 8, 1, 0, 1>>

\* The first byte of a status push (lock.py 327)
STATUS_PUSH == 15

\* The values of LockStatus (const.py 61-68)
LockStatuses == 0..6

\* _parse_lock_data (lock.py 341-349) of at least two bytes whose status
\* bits name a LockStatus
ParseLockData(data) ==
    [some |-> TRUE,
     calibration |-> (data[1] \div 128) % 2 = 1,
     status |-> (data[1] \div 16) % 8,
     door_open |-> (data[1] \div 4) % 2 = 1,
     unclosed_alarm |-> (data[2] \div 32) % 2 = 1,
     unlocked_alarm |-> (data[2] \div 16) % 2 = 1]

\* _update_parsed_data: the lock data are stored; TRUE when they changed
UpdateParsedData(lock_data, new_data) ==
    [lock_data |-> new_data, changed |-> new_data # lock_data]

\* What a call of the handler leaves: the outcome and what it found
Handled(p, data, out) ==
    [p EXCEPT !.data = Some(data), !.out = out,
              !.enabled = p.notifications_enabled,
              !.waiting = p.notify_future = "pending",
              !.before = p.lock_data]

\* _update_lock_status (lock.py 332-339) where data[4:] was decrypted to
\* d: data[0] or data[1] of too few bytes raises IndexError, LockStatus(7)
\* raises ValueError
UpdateLockStatus(p, data, d) ==
    IF d.raised \/ Len(d.out) < 2
    THEN Handled(p, data, "push_raised")
    ELSE IF ParseLockData(d.out).status \notin LockStatuses
    THEN Handled(p, data, "push_raised")
    ELSE LET u == UpdateParsedData(p.lock_data, ParseLockData(d.out))
         IN  IF u.changed
             THEN [Handled(p, data, "stored") EXCEPT
                      !.lock_data = u.lock_data]
             ELSE Handled(p, data, "unchanged")

\* SwitchbotBaseDevice._notification_handler (device.py 330-335)
BaseNotificationHandler(p, data) ==
    IF p.notify_future = "pending"
    THEN [Handled(p, data, "completed") EXCEPT !.notify_future = "done",
                                               !.result = Some(data)]
    ELSE Handled(p, data, "dropped")

\* SwitchbotLock._notification_handler (lock.py 326-330) on the session
\* se: the lock after it and the session after it
LockNotificationHandler(p, se, data) ==
    LET is_push == IF p.notifications_enabled
                   THEN CheckCommandResult(Some(data), 0, {STATUS_PUSH})
                   ELSE "false"
        d == LockDecrypt(se, Slice(data, 4, Len(data)))
    IN  IF is_push = "raise"
        THEN [p |-> Handled(p, data, "check_raised"), se |-> se]
        ELSE IF is_push = "true"
        THEN [p |-> UpdateLockStatus(p, data, d), se |-> d.se]
        ELSE [p |-> BaseNotificationHandler(p, data), se |-> se]

\* The notifications a lock may send: none of its bytes, responses, and
\* status pushes of no payload, of one too short and of whole ones
PushNotifications ==
    {<<>>, <<1>>, <<7>>, <<STATUS_PUSH>>, <<STATUS_PUSH, 0, 0, 0, 0>>}
    \cup {<<STATUS_PUSH, 0, 0, 0>> \o c : c \in {<<0, 0>>, <<16, 48>>}}

\* The responses to the command that enables notifications
EnableResponses == {Some(<<>>), Some(<<1>>), Some(<<7>>)}

\* The answers to the request for the IV that comes before it: a refusal
\* and an IV
EnableIvResults == {Some(<<7>>), Some(<<1, 0, 0, 0>> \o Fill(16, 0))}

\* The lock p with the last call of its handler forgotten
Since(p) ==
    [p EXCEPT !.data = NoResult, !.out = "none", !.enabled = FALSE,
              !.waiting = FALSE, !.before = NoLockData]

\* The state after a step of the lock that came to p on the session se
Pushed(p, se) ==
    /\ pushed' = p
    /\ session' = se
    /\ UNCHANGED <<engine, cls, sb_adv_data, override_adv_data, applied,
                   chk, turned, codec, covers, made>>

\* _enable_notifications (lock.py 310-316): the command is sent unless
\* notifications are on already
EnableNotifications ==
    /\ made.out = "constructed"
    /\ ~pushed.notifications_enabled
    /\ \E resp \in EnableResponses,
          ivres \in (IF session.iv.none THEN EnableIvResults
                     ELSE {NoResult}) :
           LET se == LockSendCommand(session, COMMAND_ENABLE_NOTIFICATIONS,
                                     ivres, resp)
           IN  Pushed([Since(pushed) EXCEPT
                          !.notifications_enabled =
                              /\ se.out = "bytes"
                              /\ CheckCommandResult(
                                     Some(se.result), 0,
                                     COMMAND_RESULT_EXPECTED_VALUES) = "true"],
                      se)

\* _execute_command_locked makes the future it will wait for
\* (device.py 349)
ExpectNotification ==
    /\ made.out = "constructed"
    /\ pushed.notify_future # "pending"
    /\ Pushed([Since(pushed) EXCEPT !.notify_future = "pending",
                                    !.result = NoResult], session)

\* The wait for the notification is over: it came (device.py 358), or
\* the five seconds passed and the future is cancelled (device.py 355-356)
NotificationAwaited ==
    /\ pushed.notify_future \in {"pending", "done"}
    /\ Pushed([Since(pushed) EXCEPT
                  !.notify_future = IF @ = "done" THEN "none" ELSE "cancelled",
                  !.result = NoResult],
              session)

\* The transport hands a notification to the lock's handler.
LockNotified ==
    /\ made.out = "constructed"
    /\ \E data \in PushNotifications :
           LET h == LockNotificationHandler(pushed, session, data)
           IN  Pushed(h.p, h.se)

NextPush ==
    \/ EnableNotifications
    \/ ExpectNotification
    \/ NotificationAwaited
    \/ LockNotified
    \/ LockExecuteDisconnect

\* A lock made with a key_id and an encryption_key.
InitPush ==
    /\ cls = "device"
    /\ encrypted = TRUE
    /\ retry_count = 0
    /\ Constructed
    /\ chk = NoCheck
    /\ Imported
    /\ parsed = NoParsed
    /\ cover = NoCover
    /\ got = NoGot
    /\ made = [key_id |-> <<15, 15>>,
               encryption_key |-> Fill(KeyLength, 15), model |-> "lock",
               out |-> LockInit(<<15, 15>>, Fill(KeyLength, 15), "lock")]
    /\ session = NewSession(<<15, 15>>, Fill(KeyLength, 15))

SpecPush == InitPush /\ [][NextPush]_vars

\* ------------------------------------------------------------- claims
\* A command is in flight from the start of its write to the receipt or
\* the timeout of its notification.
InFlight(c) == call[c].pc \in {"writing", "waiting"}

\* C1: of two concurrent _send_command calls to one device at most one is
\* in flight on the wire at any time: while one call is between its write
\* and its notification (or timeout), no other call writes.
C1_OneCommandInFlight ==
    \A c, d \in Callers : (InFlight(c) /\ InFlight(d)) => c = d

\* C1 witness: one call waits for its notification while the other call
\* has been made and queues for the operation lock.
C1_Witness ==
    \E c, d \in Callers : call[c].pc = "waiting" /\ call[d].pc = "wait_op"

\* C2 (as claimed): a call with retries N on a device without a session
\* that fails with every attempt timed out has made exactly N+1 connection
\* attempts, and a call that succeeds at attempt k+1 after k timeouts has
\* made exactly k+1.
C2_ConnectPerAttempt ==
    [][\A c \in Callers :
          (call[c].pc # "done" /\ call'[c].pc = "done"
             /\ call[c].fresh /\ call[c].onlyTimeouts)
          => /\ call'[c].outcome = "timeout"
                => call[c].nconn = call[c].retry + 1
             /\ call'[c].outcome = "ok"
                => call[c].nconn = call[c].attempt + 1]_vars

\* C3 (as claimed): an encrypted frame written on a session carries the
\* prefix of, and was encrypted under, the IV negotiated on that session.
C3_FrameUnderSessionIv ==
    \A c \in Callers :
        (call[c].pc = "waiting" /\ call[c].frame.enc)
        => (call[c].frame.ivp = call[c].cl /\ call[c].frame.ct = call[c].cl)

\* No disconnect is under way.
NoDisconnecting ==
    /\ td.pc # "disconnecting"
    /\ \A c \in Callers : call[c].pc # "disconnecting"

\* C4 (as claimed): whenever the lock has no live connection (and none is
\* being torn down), neither an IV nor a cipher is stored.
C4_NoIvWithoutConnection ==
    (~IsConnected(St) /\ NoDisconnecting) => (iv = 0 /\ cipher = 0)

\* C5 (as claimed): an attempt that follows a failed attempt starts by
\* establishing a new connection, the session having been force-disconnected.
C5_RetryReconnects ==
    [][\A c \in Callers :
          (call[c].pc # "idle" /\ call'[c].attempt > call[c].attempt)
          => call'[c].pc \in {"connecting", "wait_conn"}]_vars

\* C6 (as claimed): the notification a call returns answers a write of
\* that call.
C6_OwnResponse ==
    \A c \in Callers :
        (call[c].pc = "done" /\ call[c].outcome = "ok")
        => call[c].result.cmd = c

\* The timed-disconnect task created by an expiry of the idle timer has
\* not yet decided whether to disconnect.
TimedPending == td.pc \in {"scheduled", "wait_disc"}

\* C7: an expiry of the idle timer creates one timed disconnect; when it
\* runs it takes the session down unless a command has reset the timer in
\* the meantime, and then it leaves session and timer alone; the
\* connection it disconnects is down when it ends.
C7_IdleDisconnectOnce ==
    [][/\ (td.pc = "idle" /\ td'.pc # "idle")
          => (timer /\ ~timer' /\ td'.pc = "scheduled")
       /\ (TimedPending /\ ~TimedPending')
          => IF timer
             THEN td'.pc = "idle" /\ timer' /\ client' = client
                  /\ live' = live
             ELSE /\ client' = 0
                  /\ IF IsConnected(St)
                     THEN td' = [pc |-> "disconnecting", cl |-> client]
                     ELSE td'.pc = "idle"
       /\ (td.pc = "disconnecting" /\ td'.pc # "disconnecting")
          => (td'.pc = "idle" /\ td.cl \notin live')]_vars

\* C7 witness: the timer has expired, and before the timed disconnect ran
\* a command found the session connected and reset the timer.
C7_Witness == td.pc = "scheduled" /\ timer /\ IsConnected(St)

\* C8 (as claimed): the timed disconnect does not take the session down
\* while a command waits for its notification.
C8_NoTimedTeardownInFlight ==
    \A c \in Callers : call[c].pc = "waiting" => td.pc # "disconnecting"

\* C9 (as claimed): at most one transport connection is live.
C9_OneLiveConnection == Cardinality(live) <= 1

\* C10 (as claimed): an encrypted frame is written only while an IV is
\* stored.
C10_IvStoredAtWrite ==
    \A c \in Callers :
        (call[c].pc = "waiting" /\ call[c].frame.enc) => call[c].stored # 0

\* C11 (as claimed): on one connection the IV is negotiated at most once:
\* no get-IV command is written on a connection whose IV is already stored,
\* also when encrypted commands were submitted concurrently.
C11_OneIvPerConnection ==
    \A c \in Callers :
        (call[c].pc = "waiting" /\ call[c].phase = "iv")
        => call[c].stored # call[c].cl

\* C12 (as claimed): when the transport drops the connection of the
\* session, the session state is cleared: client, characteristics, IV and
\* cipher.
C12_UnexpectedDisconnectClears ==
    [][(IsConnected(St) /\ client \notin live')
       => (client' = 0 /\ ~read_char' /\ ~write_char'
           /\ iv' = 0 /\ cipher' = 0)]_vars

\* C13: device-not-found at connect is surfaced by the step that meets it,
\* whatever the retry budget: the call ends there with that error, holding
\* no lock and having written nothing, and no call goes on to a further
\* attempt after it.
C13_NotFoundSurfaces ==
    [][\A c \in Callers :
          /\ call'[c].err # "notfound"
          /\ (call'[c].outcome = "notfound" /\ call[c].outcome # "notfound")
             => /\ call[c].pc = "connecting"
                /\ call'[c].pc = "done"
                /\ inflight' = inflight
                /\ \A i \in 1..Len(opLock') : opLock'[i] # c
                /\ \A i \in 1..Len(connLock') : connLock'[i] # c]_vars

\* C13 witness: a call with retries left has ended with device-not-found
\* and nothing was ever connected or written.
C13_Witness ==
    \E c \in Callers :
        /\ call[c].outcome = "notfound"
        /\ retry_count > 0
        /\ nConn = 0
        /\ inflight = {}

\* C14: a call that is over, by return, by an error or by cancellation,
\* holds neither lock and waits for neither: every entry of a lock's queue
\* is a task suspended where it holds or awaits that lock.
C14_LocksReleased ==
    /\ \A i \in 1..Len(opLock) : call[opLock[i]].pc \notin {"idle", "done"}
    /\ \A i \in 1..Len(connLock) :
          IF connLock[i] = Timed
          THEN td.pc \in {"wait_disc", "disconnecting"}
          ELSE call[connLock[i]].pc \in
                   {"wait_conn", "connecting", "get_services", "subscribing",
                    "wait_disc", "disconnecting"}

\* C14 witness: the first caller was cancelled and the second caller, which
\* called after it, holds both locks.
C14_Witness ==
    /\ call[1].outcome = "cancelled"
    /\ opLock = <<2>>
    /\ connLock = <<2>>

\* C15 (as claimed): commands are written in the order they were
\* submitted: the second caller writes no frame before the call of the first
\* caller, submitted before it, is over.
C15_SubmissionOrder ==
    \A c, d \in Callers :
        (c < d /\ InFlight(d)) => call[c].pc = "done"

\* C16: when the answer a lock's get-IV command waits for reports no
\* success, the call stores no IV and builds no cipher, writes no further
\* frame and ends without a result.
C16_FailedNegotiation ==
    [][\A c \in Callers :
          (/\ call[c].pc = "waiting"
           /\ call[c].phase = "iv"
           /\ future.st = "done"
           /\ ~future.res.ok
           /\ call'[c] # call[c])
          => /\ iv' = iv
             /\ cipher' = cipher
             /\ inflight' = inflight
             /\ call'[c].pc = "done"
             /\ call'[c].outcome = "none"
             /\ call'[c].result = NoMsg]_vars

\* C16 witness: a call on a lock has ended without a result and no IV is
\* stored.
C16_Witness ==
    \E c \in Callers :
        /\ encrypted
        /\ call[c].pc = "done"
        /\ call[c].outcome = "none"
        /\ iv = 0
        /\ cipher = 0

\* A characteristic of the connected session is missing.
CharMissing == IsConnected(St) /\ ~(read_char /\ write_char)

\* C17: a write is started only with both characteristics resolved on a
\* connected session; while a characteristic of the connected session is
\* missing no command is in flight and nothing was written on that
\* session; the call that ends with CharacteristicMissingError has written
\* nothing in that attempt.
C17_CharacteristicsResolved ==
    [][/\ \A c \in Callers :
             (call'[c].pc = "writing" /\ call[c].pc # "writing")
             => (read_char' /\ write_char' /\ IsConnected(St)')
       /\ CharMissing'
          => /\ \A c \in Callers : ~InFlight(c)'
             /\ \A m \in inflight' : m.conn # client'
       /\ \A c \in Callers :
             (call'[c].outcome = "charmissing"
                /\ call[c].outcome # "charmissing")
             => (CharMissing' /\ inflight' = inflight)]_vars

\* C17 witness: a call has ended with CharacteristicMissingError on a
\* connected session, a characteristic being absent also after the
\* services were fetched again, and nothing was written on the session.
C17_Witness ==
    \E c \in Callers :
        /\ call[c].outcome = "charmissing"
        /\ CharMissing
        /\ \A m \in inflight : m.conn # client

\* C18: _check_command_result raises the operation error exactly when the
\* result is None, empty or no longer than index, and otherwise says
\* whether the byte at index is one of the accepted values.
C18_CheckResult ==
    chk.out # "none"
    => LET short == \/ chk.result.none
                    \/ Len(chk.result.bytes) = 0
                    \/ Len(chk.result.bytes) <= chk.index
       IN  /\ (chk.out = "raise") <=> short
           /\ ~short => ((chk.out = "true")
                          <=> (chk.result.bytes[chk.index + 1] \in chk.values))
           /\ ~short => chk.out \in {"true", "false"}

\* C18 witness: a result just long enough for the index was checked and
\* its byte at the index, the last one, was accepted.
C18_Witness ==
    /\ chk.out = "true"
    /\ chk.index > 0
    /\ Len(chk.result.bytes) = chk.index + 1

\* C19 (as claimed): an advertisement with an empty field map does not
\* replace a cached advertisement with fields, and an advertisement with
\* fields always becomes the cached one.
C19_EmptyNeverReplaces ==
    [][applied' # applied
       => /\ (applied'.data = EmptyMap /\ sb_adv_data.some
                 /\ sb_adv_data.data # EmptyMap)
             => sb_adv_data' = sb_adv_data
          /\ applied'.data # EmptyMap
             => (applied'.stored /\ sb_adv_data'.some)]_vars

\* C20 (as claimed): once an advertisement is accepted, every field of the
\* cache has the value the advertisement was decoded with, for every class.
C20_WholesaleReplacement ==
    [][(applied' # applied /\ applied'.stored)
       => sb_adv_data' = [some |-> TRUE, data |-> applied'.data]]_vars

\* C21: a call of parse_advertisement_data returns what the first call with
\* the same service data, manufacturer data, manufacturer id and model hint
\* returned, whatever was parsed and whatever a device was fed in between.
C21_DecodeDeterministic ==
    parsed.at = "returned"
    => \A e \in seen : e.in = parsed.in => e.out = parsed.out

\* C22 (as claimed): a passive decode (no service data, manufacturer data,
\* the hint of a registered model) gives an advertisement whose field map
\* has the keys that the active decode of that model has, the ones it
\* cannot tell being null.
C22_PassiveKeysAsActive ==
    LET t == SwitchbotModelToChar(parsed.in.model)
        active == Func(SUPPORTED_TYPES[t].func, Some(Fill(MaxBody + 1, 1)),
                       parsed.in.mfr_data, 0)
    IN  (/\ parsed.at = "returned"
         /\ parsed.in.service_data.none
         /\ ~parsed.in.mfr_data.none
         /\ t # Absent
         /\ ~active.raised)
        => /\ ~parsed.out.none
           /\ \A k \in Keys :
                  (parsed.out.data.data[k] = Omitted)
                  <=> (active.data[k] = Omitted)

\* C23 (as claimed): the model decoded is that of the tag
\* service_data[0] & 0x7F when there are service data, whatever the hint;
\* else that of a registered hint; else the first model of the manufacturer
\* id whose declared manufacturer data length is the length seen; else the
\* result is None.
C23_ServiceDataTagFirst ==
    LET in == parsed.in
        models == ModelsByManufacturerData(in.mfr_id)
        fits == {i \in 1..Len(models) :
                    SUPPORTED_TYPES[models[i]].manufacturer_data_length
                        = Len(in.mfr_data.bytes)}
        claimed == IF Given(in.service_data)
                   THEN At(in.service_data.bytes, 0) % 128
                   ELSE IF SwitchbotModelToChar(in.model) # Absent
                   THEN SwitchbotModelToChar(in.model)
                   ELSE IF in.mfr_id # Absent /\ fits # {}
                   THEN models[CHOOSE i \in fits : \A j \in fits : i <= j]
                   ELSE Absent
    IN  (parsed.at = "returned" /\ ~parsed.raised)
        => IF claimed = Absent
           THEN parsed.out.none
           ELSE ~parsed.out.none /\ parsed.out.data.model = claimed

\* The service data of the advertisement parsed decode to temperature 0,
\* humidity 0 and battery 0, and no manufacturer data came with them.
ZeroMeterPayload ==
    /\ parsed.in.mfr_data.none
    /\ ~parsed.in.service_data.none
    /\ Len(parsed.in.service_data.bytes) >= 6
    /\ LET d == parsed.in.service_data.bytes
       IN  /\ At(d, 2) % 128 = 0
           /\ At(d, 3) % 16 = 0
           /\ At(d, 4) % 128 = 0
           /\ At(d, 5) % 128 = 0

\* C30: meter service data without manufacturer data whose temperature,
\* humidity and battery decode to zero give an advertisement with an empty
\* field map and no model name, not a reading of 0 degrees.
C30_ZeroMeterIsEmpty ==
    (parsed.at = "returned" /\ ZeroMeterPayload)
    => /\ ~parsed.out.none
       /\ parsed.out.data.data = NoFields
       /\ ~parsed.out.data.named

\* C30 witness: service data "T" with five bytes that have at most the
\* high bit set, the Fahrenheit bit among them, were parsed without
\* manufacturer data, and the field map is empty.
C30_Witness ==
    /\ parsed.at = "returned"
    /\ ZeroMeterPayload
    /\ At(parsed.in.service_data.bytes, 0) = 84
    /\ At(parsed.in.service_data.bytes, 5) = 128
    /\ parsed.out.data.data = NoFields

\* C24 (as claimed): the map a call of get_extended_info_adv or
\* get_extended_info_summary returns has a device1 block only if the
\* secondary-unit byte of that call's response is not zero, whatever
\* earlier calls returned.
C24_SecondBlockOnlyWhenFlagged ==
    /\ (got.read = "adv" /\ got.out = "map")
       => (cover.ext_info_adv.device1.some => got.flag)
    /\ (got.read = "sum" /\ got.out = "map")
       => (cover.ext_info_sum.device1.some => got.flag)

C26_ReadsReturnNone ==
    (got.read \in {"basic", "adv", "sum"}
       /\ got.given \in {"absent", "empty", "unsuccessful"} \cup Exhausted)
    => got.out = "none"

\* C27: the frame written for an encrypted command is the first byte of
\* the command, the key id, the first two bytes of the session's IV and
\* the CTR encryption of the rest of the command; what is returned is the
\* first byte of the response as it came and the CTR decryption of the
\* response from byte 4 on, so bytes 1 to 3 of the response are in no
\* result.
C27_FrameAndResult ==
    (session.op = "command" /\ ~session.written.none)
    => LET w == session.written.bytes
           k == FromHex(session.key)
           r == session.response
       IN  /\ Len(w) = Len(k) + 3
           /\ w[1] = k[1]
           /\ w[2] = FromHex(session.key_id)[1]
           /\ Slice(w, 2, 4) = Slice(session.iv.bytes, 0, 2)
           /\ Slice(w, 4, Len(w))
                  = Ctr(session.encryption_key, session.iv.bytes, Tail(k))
           /\ ~r.none
              => /\ session.out = "bytes"
                 /\ session.result
                        = Slice(r.bytes, 0, 1)
                          \o Ctr(session.encryption_key, session.iv.bytes,
                                 Slice(r.bytes, 4, Len(r.bytes)))

\* C27 witness: a command with a payload was written in a frame, and the
\* response, a status, three bytes and two more, came back as the status
\* and two bytes that are not those of the response.
C27_Witness ==
    /\ session.op = "command"
    /\ ~session.written.none
    /\ Len(session.written.bytes) > 4
    /\ ~session.response.none
    /\ Len(session.response.bytes) = 6
    /\ session.out = "bytes"
    /\ Len(session.result) = 3
    /\ session.result[1] = session.response.bytes[1]
    /\ session.result[2] # session.response.bytes[5]

\* C28: within a session, _decrypt of what _encrypt made of a payload is
\* the payload, the empty one too, whatever was sent, encrypted or
\* decrypted in between.
C28_DecryptUndoesEncrypt ==
    (session.op = "decrypt" /\ ~session.sealed.none
       /\ session.data = session.sealed)
    => (session.out = "bytes" /\ session.opened = session.plain)

\* C28 witness: a payload of two bytes was encrypted to other bytes, other
\* calls were made, and decrypting those bytes gave the payload.
C28_Witness ==
    /\ session.op = "decrypt"
    /\ session.data = session.sealed
    /\ Len(session.plain) = 2
    /\ session.sealed.bytes # session.plain
    /\ session.between = 1
    /\ session.opened = session.plain

\* C29 (as claimed): SwitchbotLock(...) with a key_id that is not 2 hex
\* digits or an encryption_key that is not 32 hex digits raises, and no
\* lock is made that could connect or write.
C29_KeyMaterialCheckedAtConstruction ==
    (/\ made.out # "none"
     /\ ~ (/\ Len(made.key_id) = KeyIdLength
           /\ IsHex(made.key_id)
           /\ Len(made.encryption_key) = KeyLength
           /\ IsHex(made.encryption_key)))
    => (made.out # "constructed" /\ session = NoSession)

\* C31: whenever process_wocurtain returns, the position is
\* 100 - min(byte3 & 0x7F, 100) with reverse and min(byte3 & 0x7F, 100)
\* without, so within 0..100; battery is byte2 & 0x7F, calibration bit 6 of
\* byte1, inMotion bit 7 of byte3 and lightLevel the high nibble of byte4.
\* The service data 63 C0 58 00 11 04 with reverse decode to position 100,
\* battery 88, calibrated, not in motion, light level 1.
C31_CurtainFields ==
    (decoded.at = "returned" /\ ~decoded.raised) =>
        LET d == decoded.data.bytes
            low == d[4] % 128
            clamped == IF low < 100 THEN low ELSE 100
            o == decoded.out
        IN  /\ o["position"] = IF decoded.reverse THEN 100 - clamped
                               ELSE clamped
            /\ o["position"] \in 0..100
            /\ o["battery"] = d[3] % 128
            /\ o["calibration"] = (d[2] \div 64) % 2
            /\ o["inMotion"] = d[4] \div 128
            /\ o["lightLevel"] = d[5] \div 16
            /\ (d = <<99, 192, 88, 0, 17, 4>> /\ decoded.reverse) =>
                   /\ o["position"] = 100
                   /\ o["battery"] = 88
                   /\ o["calibration"] = 1
                   /\ o["inMotion"] = 0
                   /\ o["lightLevel"] = 1

\* A position byte whose low seven bits exceed 100 was decoded without
\* reverse, in motion, and clamped.
C31_Witness ==
    /\ decoded.at = "returned"
    /\ ~decoded.raised
    /\ ~decoded.reverse
    /\ decoded.data.bytes[4] = 255
    /\ decoded.out["position"] = 100
    /\ decoded.out["inMotion"] = 1

\* C32: on a relay switch, since the last advertisement was applied, is_on()
\* is true after a turn_on and false after a turn_off that the device
\* answered with the status byte 1, and is what it was before a turn_on or
\* turn_off that was answered otherwise, not at all, or raised.
C32_TurnOverridesIsOn ==
    /\ (turned.op = "turn_on" /\ turned.out = "true") => IsOn = 1
    /\ (turned.op = "turn_off" /\ turned.out = "true") => IsOn = 0
    /\ (turned.op # "none" /\ turned.out # "true") => IsOn = turned.before
    /\ (turned.out = "true") <=>
           (turned.err = "none" /\ ~turned.resp.none
            /\ turned.resp.bytes # <<>> /\ turned.resp.bytes[1] = 1)

\* A relay switch advertised as on was turned off with the status byte 1.
C32_Witness ==
    /\ turned.op = "turn_off"
    /\ turned.out = "true"
    /\ turned.before = 1
    /\ sb_adv_data.some
    /\ sb_adv_data.data["isOn"] = 1
    /\ IsOn = 0

\* C33: on a sequence-number-tracking device, an update_from_advertisement
\* schedules one update() when the sequence number read from the cache
\* after it differs from the one read before it, and none otherwise: none
\* for an advertisement that repeats the sequence number and none for one
\* whose field map is empty.
C33_UpdateOncePerSequenceNumber ==
    (cls = "sequence" /\ applied # NoApplied) =>
        LET after == GetAdvValue(sb_adv_data, override_adv_data,
                                 "sequence_number")
        IN  /\ applied.scheduled \in {0, 1}
            /\ (applied.scheduled = 1) <=> (after # applied.before)
            /\ (applied.data = EmptyMap) => (applied.scheduled = 0)
            /\ (applied.data["sequence_number"] = applied.before
                /\ applied.before # Absent) => (applied.scheduled = 0)

\* A sequence device that had cached the sequence number 0 got an
\* advertisement with the sequence number 1 and scheduled an update.
C33_Witness ==
    /\ cls = "sequence"
    /\ applied.before = 0
    /\ applied.data["sequence_number"] = 1
    /\ applied.stored
    /\ applied.scheduled = 1

\* C34: on a device of the override-state-during-connection kind, an
\* update_from_advertisement while the client is connected leaves the cached
\* advertisement and the override as they are and raises nothing; while the
\* client is not connected it does what _set_advertisement_data does for
\* any device.
C34_IgnoredWhileConnected ==
    [][\A data \in OverrideAdverts :
          UpdateFromAdvertisement(data) =>
              IF IsConnected(St)
              THEN /\ sb_adv_data' = sb_adv_data
                   /\ override_adv_data' = override_adv_data
                   /\ ~applied'.stored
                   /\ ~applied'.raised
              ELSE LET r == SetAdvertisementData(sb_adv_data,
                                                 override_adv_data, data)
                   IN  /\ sb_adv_data' = r.sb
                       /\ override_adv_data' = r.ov
                       /\ applied'.stored = r.stored
                       /\ applied'.raised = r.raised]_vars

\* While connected, with isOn cached as 0 and overridden as 1, an
\* advertisement of isOn 1 was ignored.
C34_Witness ==
    /\ cls = "override"
    /\ applied.connected
    /\ applied.data["isOn"] = 1
    /\ sb_adv_data.some
    /\ sb_adv_data.data["isOn"] = 0
    /\ override_adv_data["isOn"] = 1

\* C35 (as claimed): on a lock, also with encrypted commands submitted
\* concurrently, a cipher that exists was built from the IV now stored, and
\* the IV prefix of an encrypted frame is of the IV under which the frame
\* was encrypted.
C35_CipherOfStoredIv ==
    /\ (cipher # 0) => (cipher = iv)
    /\ \A c \in Callers :
           call[c].frame.enc => (call[c].frame.ivp = call[c].frame.ct)

\* A disconnect is under way: the timed task is created or running, or a
\* caller is in its forced disconnect.
Disconnecting ==
    \/ td.pc # "idle"
    \/ \E c \in Callers : call[c].pc \in {"wait_disc", "disconnecting"}

\* C36 (as claimed): whenever a connection is up and no caller is still
\* setting it up, the idle timer is armed or a disconnect is under way, so
\* that the connection is taken down when no further command comes; also
\* after a failure between connecting and subscribing and after a timed
\* disconnect that was skipped.
C36_LiveConnectionHasTimer ==
    \A n \in live :
        \/ timer
        \/ Disconnecting
        \/ \E c \in Callers :
               call[c].pc = "get_services" /\ call[c].cl = n

\* The steps of caller c after its call: what its coroutine does when the
\* await it is suspended in returns or raises
Resume(c) ==
    \/ OperationLockGranted(c)
    \/ ConnectLockGranted(c)
    \/ ConnectOk(c)
    \/ ConnectNotFound(c)
    \/ ConnectError(c)
    \/ GetServicesOk(c)
    \/ GetServicesError(c)
    \/ StartNotifyOk(c)
    \/ StartNotifyError(c)
    \/ WriteOk(c)
    \/ WriteBleakError(c)
    \/ WriteDBusError(c)
    \/ BackoffDone(c)
    \/ NotificationReceived(c)
    \/ NotificationTimeout(c)
    \/ DisconnectLockGranted(c)
    \/ DisconnectDone(c)

\* The steps of the timed-disconnect task
ResumeTimed ==
    \/ TimedDisconnectStarts
    \/ DisconnectLockGranted(Timed)
    \/ DisconnectDone(Timed)

\* The event loop runs every task that can run, and every transport call
\* returns or fails.
Fairness ==
    /\ \A c \in Callers : WF_vars(Resume(c))
    /\ WF_vars(ResumeTimed)

\* A plain device that attempts a command once or twice, or a lock that
\* attempts each of its commands once
InitFair ==
    /\ cls = "device"
    /\ chk = NoCheck
    /\ Untouched
    /\ encrypted \in BOOLEAN
    /\ retry_count \in (IF encrypted THEN {0} ELSE {0, 1})
    /\ Constructed

\* The device with its tasks scheduled fairly
SpecFair == InitFair /\ [][Next]_vars /\ Fairness

\* C37: every _send_command call ends, having made at most retry + 1
\* attempts per command sent, whatever the interleaving of commands, IV
\* negotiation, forced disconnects and idle-timer disconnects: no call waits
\* for the operation lock or the connect lock for ever.
C37_CallsTerminate ==
    /\ [](\A c \in Callers : call[c].attempt <= call[c].retry)
    /\ \A c \in Callers : (call[c].pc # "idle") ~> (call[c].pc = "done")

\* Both calls have ended, the second after it had waited for the first.
C37_Witness ==
    /\ \A c \in Callers : call[c].pc = "done"
    /\ call[1].outcome = "timeout"
    /\ call[2].outcome = "ok"
    /\ retry_count = 1

\* C38 (as claimed): no update_from_advertisement raises, whatever the
\* advertisement and whatever the device has cached, also for an empty
\* field map given to a device that has cached no advertisement yet.
C38_UpdateNeverRaises == ~applied.raised

\* C39: on a blind tilt, after any sequence of open, close_up and
\* close_down commands and advertisements, is_opening() and is_closing()
\* are never both true.
C39_NeverOpeningAndClosing == ~(cover.is_opening /\ cover.is_closing)

\* A blind that was opening was told to close up, and is closing.
C39_Witness ==
    /\ got.read = "close_up"
    /\ got.was_opening
    /\ cover.is_closing
    /\ ~cover.is_opening
    /\ cover.tilt # Absent

\* C40: on a lock with status notifications enabled, a notification whose
\* first byte is 0x0F is handled as a status push and never becomes the
\* response of the pending command; any other notification completes the
\* pending command when one waits, and is dropped otherwise, and leaves the
\* lock data as they were.
C40_PushOrResponse ==
    (pushed.out # "none" /\ pushed.enabled) =>
        IF pushed.data.bytes # <<>> /\ pushed.data.bytes[1] = STATUS_PUSH
        THEN /\ pushed.out \in {"stored", "unchanged", "push_raised"}
             /\ pushed.waiting =>
                    (pushed.notify_future = "pending"
                     /\ pushed.result = NoResult)
        ELSE /\ pushed.lock_data = pushed.before
             /\ IF pushed.waiting
                THEN /\ pushed.out = "completed"
                     /\ pushed.notify_future = "done"
                     /\ pushed.result = pushed.data
                ELSE pushed.out = "dropped"

====
